---------------------------- MODULE Spec2Model ----------------------------
(***************************************************************************)
(* A model of soltag: inline Solidity in TypeScript tagged templates.      *)
(*                                                                         *)
(*   - the constant folder        (src/ast-utils.ts)                       *)
(*   - the position mapper        (editor diagnostics)                     *)
(*   - the compilation caches     (runtime/compiler.ts, solc.ts)           *)
(*   - the build transform        (bundler unplugin)                       *)
(*   - the embedding scanner      (editor analysis, cli)                   *)
(*   - the declaration codegen    (codegen.ts)                             *)
(*   - the generated types file   (typegen, cli, bundler buildEnd)         *)
(*   - the editor diagnostics     (getSemanticDiagnostics)                 *)
(*   - the external-files hook    (getExternalFiles)                       *)
(*                                                                         *)
(* Text is a sequence of one-character strings.  Syntax-tree nodes are     *)
(* records tagged with the TypeScript SyntaxKind name in the field `kind`. *)
(***************************************************************************)
EXTENDS Integers, Sequences, FiniteSets, TLC

VARIABLES
    \* ---- constant folder (SpecFold) ----
    sourceFile,        \* the statements of the source file being folded
    node,              \* the expression handed to resolveStringExpression
    locals,            \* declarations of the function body enclosing `node`
    foldResult,        \* what the call produced ("none" before the call)
    \* ---- position mapper (SpecMap) ----
    site,              \* the template literal of an embedding site
    mapFile,           \* the statements of the file that holds the site
    compiledPos,       \* the foreign offset last mapped
    side,              \* "start" or "end"
    mapped,            \* the host offset the mapper returned (-1 before)
    projected,         \* the diagnostic last projected from a solc error
    diagnosed,         \* the last call of getSemanticDiagnostics and its outcome
    plugin,            \* the language-service plugin's closure: pluginInfo,
                       \* lastRegenerate, cachedExternalFiles
    external,          \* the last call of getExternalFiles and what it did
    \* ---- compilation caches (SpecCache, SpecBuild) ----
    compilationCache,  \* runtime/compiler.ts: Map hash -> CompilationResult
    cache,             \* solc.ts: Map key -> SolcStandardOutput
    heap,              \* the objects allocated so far; a reference is an index
    solcLog,           \* the inputs solc.compile was invoked with, in order
    callers,           \* the pending and completed calls of each caller
    clock,             \* calls completed so far
    \* ---- build transform (SpecBuild) ----
    namedEntries,      \* bundler/unplugin.ts: Map key -> ContractTypeEntry
    phase,             \* the bundler's build: "idle", "started", "transforming"
    transformed,       \* the last call of transformSolTemplates and its outcome
    \* ---- embedding scanner (SpecScan) ----
    scanned,           \* the statements of the file last scanned
    scanner,           \* which findSolTemplateLiterals scanned it
    solLiterals,       \* the SolLiteralInfo records it returned
    \* ---- declaration codegen (SpecCodegen) ----
    typeEntries,       \* the ContractTypeEntry[] given to the generator
    generated,         \* the GenerationResult it returned
    \* ---- generated types file (SpecTypes) ----
    typesFile,         \* .soltag/types.d.ts on disk: its content, or absent
    project,           \* the declaration entries of the project's named sites
    pass               \* the last pass that maintained the file and what it did

foldVars  == <<sourceFile, node, locals, foldResult>>
mapVars   == <<site, mapFile, compiledPos, side, mapped, projected, diagnosed,
               plugin, external>>
storeVars == <<compilationCache, cache, heap, solcLog>>
cacheVars == <<compilationCache, cache, heap, solcLog, callers, clock>>
buildVars == <<namedEntries, phase, transformed>>
scanVars  == <<scanned, scanner, solLiterals>>
codegenVars == <<typeEntries, generated>>
typesVars == <<typesFile, project, pass>>
toolVars  == <<scanned, scanner, solLiterals, typeEntries, generated,
               typesFile, project, pass>>
vars      == <<sourceFile, node, locals, foldResult,
               site, mapFile, compiledPos, side, mapped, projected, diagnosed,
               plugin, external,
               compilationCache, cache, heap, solcLog, callers, clock,
               namedEntries, phase, transformed,
               scanned, scanner, solLiterals, typeEntries, generated,
               typesFile, project, pass>>

---------------------------------------------------------------------------
(* Bounds of the model.                                                    *)

\* Statements in a source file.
MaxStatements == 2
\* Frames of the JavaScript call stack available to the folder.  A real
\* engine has thousands; the folder's recursion on a finite, acyclic chain
\* of the model's files needs at most six.
MaxStack == 9

---------------------------------------------------------------------------
(* Text.                                                                   *)

\* "E" stands for an escape sequence such as \n: one character of cooked
\* text (node.text), two characters of host source.
RawWidth(c) == IF c = "E" THEN 2 ELSE 1

RECURSIVE RawLen(_)
RawLen(t) == IF t = <<>> THEN 0 ELSE RawWidth(Head(t)) + RawLen(Tail(t))

---------------------------------------------------------------------------
(* Syntax-tree nodes.                                                      *)

StringLiteral(t) == [kind |-> "StringLiteral", text |-> t]
NoSubstitutionTemplateLiteral(t) ==
    [kind |-> "NoSubstitutionTemplateLiteral", text |-> t]
Identifier(n) == [kind |-> "Identifier", name |-> n]
BinaryExpression(l, op, r) ==
    [kind |-> "BinaryExpression", left |-> l, operatorToken |-> op, right |-> r]
\* callee(arguments)
Call(callee, arguments) ==
    [kind |-> "CallExpression", expression |-> callee, arguments |-> arguments]
\* g(): a call the folder cannot evaluate.
CallExpression == Call(Identifier("g"), <<>>)
\* A template span: `${` lead expression trail `}` literal-text
TemplateSpan(e, t) == [expression |-> e, literal |-> t, lead |-> 0, trail |-> 0]
TemplateExpression(h, spans) ==
    [kind |-> "TemplateExpression", head |-> h, templateSpans |-> spans]
NoInitializer == [kind |-> "NoInitializer"]
\* tag`template`
TaggedTemplateExpression(tag, template) ==
    [kind |-> "TaggedTemplateExpression", tag |-> tag, template |-> template]

VariableDeclaration(n, init) == [name |-> n, initializer |-> init]
\* flags: "const", "let" or "var"
VariableStatement(flags, decls) ==
    [kind |-> "VariableStatement", flags |-> flags, declarations |-> decls]
FunctionDeclaration ==
    [kind |-> "FunctionDeclaration", flags |-> "none", declarations |-> <<>>]

---------------------------------------------------------------------------
(* The constant folder.                                                    *)

Resolved(t)  == [tag |-> "string", text |-> t]
Undefined    == [tag |-> "undefined", text |-> <<>>]
\* RangeError: Maximum call stack size exceeded
RangeError   == [tag |-> "RangeError", text |-> <<>>]

\* The (statement, declaration) index pairs resolveIdentifierToString's two
\* loops accept: a const statement, a declaration of `name` with an initializer.
ConstDeclarationsOf(name, statements) ==
    { p \in (DOMAIN statements) \X (1..2) :
        /\ statements[p[1]].kind = "VariableStatement"
        /\ statements[p[1]].flags = "const"
        /\ p[2] \in DOMAIN statements[p[1]].declarations
        /\ statements[p[1]].declarations[p[2]].name = name
        /\ statements[p[1]].declarations[p[2]].initializer.kind # "NoInitializer" }

\* p comes before q in the loops' order.
Before(p, q) == p[1] < q[1] \/ (p[1] = q[1] /\ p[2] <= q[2])

RECURSIVE resolveStringExpression(_, _, _)
RECURSIVE resolveIdentifierToString(_, _, _)
RECURSIVE resolveSpans(_, _, _, _, _)

\* The loop over node.templateSpans, from span i on, `result` so far.
resolveSpans(spans, i, result, statements, stack) ==
    IF i > Len(spans) THEN Resolved(result)
    ELSE LET r == resolveStringExpression(spans[i].expression, statements, stack)
         IN  IF r.tag # "string" THEN r
             ELSE resolveSpans(spans, i + 1, result \o r.text \o spans[i].literal,
                               statements, stack)

resolveIdentifierToString(name, statements, stack) ==
    IF stack = 0 THEN RangeError
    ELSE LET found == ConstDeclarationsOf(name, statements)
         IN  IF found = {} THEN Undefined
             ELSE LET p == CHOOSE p \in found : \A q \in found : Before(p, q)
                  IN  resolveStringExpression(
                          statements[p[1]].declarations[p[2]].initializer,
                          statements, stack - 1)

resolveStringExpression(n, statements, stack) ==
    IF stack = 0 THEN RangeError
    ELSE CASE n.kind = "StringLiteral" -> Resolved(n.text)
           [] n.kind = "NoSubstitutionTemplateLiteral" -> Resolved(n.text)
           [] n.kind = "TemplateExpression" ->
                resolveSpans(n.templateSpans, 1, n.head, statements, stack - 1)
           [] n.kind = "Identifier" ->
                resolveIdentifierToString(n.name, statements, stack - 1)
           [] n.kind = "BinaryExpression" /\ n.operatorToken = "+" ->
                LET left  == resolveStringExpression(n.left, statements, stack - 1)
                    right == resolveStringExpression(n.right, statements, stack - 1)
                IN  IF left.tag = "RangeError" THEN RangeError
                    ELSE IF right.tag = "RangeError" THEN RangeError
                    ELSE IF left.tag = "string" /\ right.tag = "string"
                         THEN Resolved(left.text \o right.text)
                         ELSE Undefined
           [] OTHER -> Undefined

\* template: a NoSubstitutionTemplateLiteral or a TemplateExpression.
extractTemplateSource(template, statements, stack) ==
    IF template.kind = "NoSubstitutionTemplateLiteral"
    THEN Resolved(template.text)
    ELSE resolveSpans(template.templateSpans, 1, template.head, statements, stack)

---------------------------------------------------------------------------
(* Inputs of the folder: the files and expressions the model folds.        *)

Names == {"A", "B"}

Initializers ==
    { NoInitializer,
      StringLiteral(<<"L">>),
      Identifier("A"),
      Identifier("B"),
      BinaryExpression(Identifier("B"), "+", StringLiteral(<<"w">>)),
      CallExpression }

Statements ==
    { VariableStatement(f, <<VariableDeclaration(n, i)>>) :
        f \in {"const", "let"}, n \in Names, i \in Initializers }
    \cup { FunctionDeclaration }

RECURSIVE SeqsUpTo(_, _)
SeqsUpTo(S, n) ==
    IF n = 0 THEN { <<>> }
    ELSE LET shorter == SeqsUpTo(S, n - 1)
         IN  shorter \cup { Append(s, x) : s \in shorter, x \in S }

SourceFiles == SeqsUpTo(Statements, MaxStatements)

Expressions ==
    { StringLiteral(<<"L">>),
      NoSubstitutionTemplateLiteral(<<"L", "w">>),
      Identifier("A"),
      BinaryExpression(Identifier("A"), "+", Identifier("B")),
      BinaryExpression(Identifier("A"), "-", Identifier("B")),
      BinaryExpression(Identifier("A"), "+", CallExpression),
      TemplateExpression(<<"L">>, <<TemplateSpan(Identifier("A"), <<"w">>)>>),
      CallExpression }

\* The declarations of an enclosing function body: none (the expression is at
\* the top level), or one declaration that shadows a top-level name.
LocalScopes ==
    { <<>>,
      <<VariableStatement("let", <<VariableDeclaration("A", CallExpression)>>)>>,
      <<VariableStatement("let", <<VariableDeclaration("A", StringLiteral(<<"w">>))>>)>>,
      <<VariableStatement("const", <<VariableDeclaration("A", CallExpression)>>)>> }

---------------------------------------------------------------------------
(* Host positions of a template literal's nodes, as the TypeScript parser  *)
(* assigns them.  A site is [template, start]: `start` is the offset of    *)
(* the opening backtick, template.getStart(sourceFile).                    *)

RECURSIVE SourceWidth(_)
RECURSIVE SpansWidth(_, _)
\* Characters of host source spans i.. of a template occupy, each written
\* lead expression trail `}` literal, followed by `${` or the closing backtick.
SpansWidth(spans, i) ==
    IF i > Len(spans) THEN 0
    ELSE spans[i].lead + SourceWidth(spans[i].expression) + spans[i].trail
         + 1 + RawLen(spans[i].literal)
         + (IF i < Len(spans) THEN 2 ELSE 1)
         + SpansWidth(spans, i + 1)

\* node.getEnd() - node.getStart(sourceFile)
SourceWidth(n) ==
    CASE n.kind = "StringLiteral" -> RawLen(n.text) + 2
      [] n.kind = "NoSubstitutionTemplateLiteral" -> RawLen(n.text) + 2
      [] n.kind = "Identifier" -> 1
      [] n.kind = "BinaryExpression" ->
            SourceWidth(n.left) + 1 + SourceWidth(n.right)
      [] n.kind = "TemplateExpression" ->
            1 + RawLen(n.head) + 2 + SpansWidth(n.templateSpans, 1)
      [] OTHER -> 3

RECURSIVE LiteralStart(_, _)
\* The offset just after the `${` that opens span i.
SpanOpen(s, i) ==
    IF i = 1 THEN s.start + 1 + RawLen(s.template.head) + 2
    ELSE LiteralStart(s, i - 1) + 1
         + RawLen(s.template.templateSpans[i - 1].literal) + 2

\* span.expression.getStart(sourceFile): leading trivia is skipped.
ExpressionStart(s, i) == SpanOpen(s, i) + s.template.templateSpans[i].lead

\* span.expression.getEnd()
ExpressionEnd(s, i) ==
    ExpressionStart(s, i) + SourceWidth(s.template.templateSpans[i].expression)

\* span.literal.getStart(sourceFile): the `}` that closes the interpolation.
LiteralStart(s, i) == ExpressionEnd(s, i) + s.template.templateSpans[i].trail

\* template.getEnd(): the offset after the closing backtick.
TemplateEnd(s) == s.start + SourceWidth(s.template)

---------------------------------------------------------------------------
(* The position mapper.                                                    *)

RECURSIVE mapSpansByWidth(_, _, _, _, _, _)
\* A mapper that advances by the width of the expression's own source text
\* instead of the length of its folded value.
mapSpansByWidth(s, statements, pos, sd, i, compiledOffset) ==
    IF i > Len(s.template.templateSpans) THEN TemplateEnd(s) - 1
    ELSE LET span == s.template.templateSpans[i]
             resolvedLen == SourceWidth(span.expression)
             litLen == Len(span.literal)
         IN  IF pos < compiledOffset + resolvedLen
             THEN (IF sd = "start" THEN ExpressionStart(s, i) ELSE ExpressionEnd(s, i))
             ELSE IF pos < compiledOffset + resolvedLen + litLen
             THEN LiteralStart(s, i) + 1 + (pos - (compiledOffset + resolvedLen))
             ELSE mapSpansByWidth(s, statements, pos, sd, i + 1,
                                  compiledOffset + resolvedLen + litLen)

RECURSIVE mapSpans(_, _, _, _, _, _)
\* The loop over expr.templateSpans, from span i on.
mapSpans(s, statements, pos, sd, i, compiledOffset) ==
    IF i > Len(s.template.templateSpans) THEN TemplateEnd(s) - 1
    ELSE LET span == s.template.templateSpans[i]
             resolved == resolveStringExpression(span.expression, statements, MaxStack)
             resolvedLen == IF resolved.tag = "string" THEN Len(resolved.text) ELSE 0
             litLen == Len(span.literal)
         IN  IF pos < compiledOffset + resolvedLen
             THEN (IF sd = "start" THEN ExpressionStart(s, i) ELSE ExpressionEnd(s, i))
             ELSE IF pos < compiledOffset + resolvedLen + litLen
             THEN LiteralStart(s, i) + 1 + (pos - (compiledOffset + resolvedLen))
             ELSE mapSpans(s, statements, pos, sd, i + 1,
                           compiledOffset + resolvedLen + litLen)

\* A mapper that forgets the opening backtick.
mapCompiledPosNoBacktick(s, statements, pos, sd) ==
    IF s.template.kind = "NoSubstitutionTemplateLiteral"
    THEN s.start + pos
    ELSE LET headLen == Len(s.template.head)
         IN  IF pos < headLen
             THEN s.start + pos
             ELSE mapSpans(s, statements, pos, sd, 1, headLen)

mapCompiledPosToEditor(s, statements, pos, sd) ==
    IF s.template.kind = "NoSubstitutionTemplateLiteral"
    THEN s.start + 1 + pos
    ELSE LET headLen == Len(s.template.head)
         IN  IF pos < headLen
             THEN s.start + 1 + pos
             ELSE mapSpans(s, statements, pos, sd, 1, headLen)

---------------------------------------------------------------------------
(* Inputs of the mapper.                                                   *)

\* Characters of a literal segment.
MaxText == 2
\* Interpolations of a site.
MaxSpans == 2
\* Host offset of the site's opening backtick.
MaxStart == 1
\* How far a foreign offset may lie past the length of the text.
MaxOvershoot == 1

SegmentChars == {"L", "w"}
Texts == SeqsUpTo(SegmentChars, MaxText)

SiteExpressions ==
    { Identifier("A"), Identifier("B"), StringLiteral(<<"L", "w">>) }

\* Whitespace before the expression (`${ A}`) is tried on the string literal.
Spans ==
    { [expression |-> e, literal |-> t, lead |-> ld, trail |-> 0] :
        e \in SiteExpressions, t \in { <<>>, <<"w">> }, ld \in {0, 1} }
    \ { sp \in [expression : SiteExpressions, literal : { <<>>, <<"w">> },
                lead : {1}, trail : {0}] : sp.expression.kind = "Identifier" }

\* The head of a template with interpolations: empty, one character, or an
\* escape sequence followed by a character.
Heads == SeqsUpTo(SegmentChars, 1) \cup { <<"E", "w">> }

Templates ==
    { NoSubstitutionTemplateLiteral(t) : t \in Texts }
    \cup { TemplateExpression(h, sp) :
            h \in Heads,
            sp \in SeqsUpTo(Spans, MaxSpans) \ { <<>> } }

Sites == { [template |-> t, start |-> h] : t \in Templates, h \in 0..MaxStart }

\* A folds to one character (as wide as the identifier itself), B to two;
\* or A folds to the empty string and B to three characters.
MapFiles ==
    { << VariableStatement("const", <<VariableDeclaration("A", StringLiteral(<<"L">>))>>),
         VariableStatement("const", <<VariableDeclaration("B",
             BinaryExpression(Identifier("A"), "+", StringLiteral(<<"w">>)))>>) >>,
      << VariableStatement("const", <<VariableDeclaration("A", StringLiteral(<<>>))>>),
         VariableStatement("const", <<VariableDeclaration("B",
             StringLiteral(<<"L", "w", "w">>))>>) >> }

---------------------------------------------------------------------------
(* The foreign compiler, solc.compile: a deterministic function of its     *)
(* input.  In the model's Solidity, "L" declares the contract Lens, "G"    *)
(* the contract Greeter, "w" draws a warning and "x" an error.             *)

\* SolcInputOptions: undefined, or { optimizer: { enabled } }.
NoOptions == [kind |-> "undefined", enabled |-> TRUE]
OptimizerOff == [kind |-> "object", enabled |-> FALSE]

\* JSON.stringify(options ?? {})
JSONstringify(options) ==
    IF options.kind = "undefined" THEN <<"{", "}">>
    ELSE <<"{", "optimizer", ":", "{", "enabled", ":",
           IF options.enabled THEN "true" ELSE "false", "}", "}">>

buildSolcInput(source, options) ==
    [content |-> source,
     enabled |-> IF options.kind = "undefined" THEN TRUE ELSE options.enabled,
     runs    |-> 1]

Occurs(c, text) == \E i \in DOMAIN text : text[i] = c

\* Contract names are text: Lens is <<"L">>, Greeter <<"G">>.
ContractNamesIn(text) ==
    (IF Occurs("L", text) THEN { <<"L">> } ELSE {})
    \cup (IF Occurs("G", text) THEN { <<"G">> } ELSE {})

\* A SolcAbiParam.
Param(name, type) == [name |-> name, type |-> type]

\* An item of a contract's ABI.
AbiItem(type, name, stateMutability, inputs, outputs) ==
    [type |-> type, name |-> name, stateMutability |-> stateMutability,
     inputs |-> inputs, outputs |-> outputs]

\* Greeter has a constructor with one input, a view function and a function
\* that writes; Lens has no constructor and one pure function.
AbiOf(name) ==
    IF name = <<"G">>
    THEN <<AbiItem("constructor", "", "nonpayable", <<Param("x", "uint256")>>, <<>>),
           AbiItem("function", "greet", "view", <<>>, <<Param("", "bool")>>),
           AbiItem("function", "set", "nonpayable", <<Param("a", "address")>>, <<>>)>>
    ELSE <<AbiItem("function", "f", "pure", <<>>, <<>>)>>

SolcErrorsOf(text) ==
    (IF Occurs("w", text)
     THEN <<[severity |-> "warning", message |-> "unused variable",
             start |-> 0, end |-> 1]>>
     ELSE <<>>)
    \o (IF Occurs("x", text)
        THEN <<[severity |-> "error", message |-> "expected ';'",
                start |-> 0, end |-> 1]>>
        ELSE <<>>)

\* The code an input compiles to depends on the source and the optimizer.
ObjectCode(input, name) ==
    <<name, IF input.enabled THEN "optimized" ELSE "plain">>

\* The SolcStandardOutput parsed from solc.compile's result.  No contract is
\* emitted for a source with an error.
solcCompile(input) ==
    [errors    |-> SolcErrorsOf(input.content),
     contracts |-> IF Occurs("x", input.content) THEN {}
                   ELSE ContractNamesIn(input.content),
     input     |-> input]

---------------------------------------------------------------------------
(* The compilation caches.  A store is the module-level state the compile  *)
(* functions share: the two Maps, the heap, the log of solc invocations.   *)

Store == [compilationCache |-> compilationCache, cache |-> cache,
          heap |-> heap, solcLog |-> solcLog]

EmptyMap == <<>>
MapHas(m, k) == \E i \in DOMAIN m : m[i].key = k
MapGet(m, k) == m[CHOOSE i \in DOMAIN m : m[i].key = k].value
\* Map.set: replaces the value of an existing key, else appends the entry.
MapSet(m, k, v) ==
    IF MapHas(m, k)
    THEN [i \in DOMAIN m |-> IF m[i].key = k THEN [key |-> k, value |-> v] ELSE m[i]]
    ELSE Append(m, [key |-> k, value |-> v])

\* keccak256(toHex(source + JSON.stringify(options ?? {}))): the digest is
\* taken to be collision-free and is represented by the bytes it digests.
hashSource(source, options) == source \o JSONstringify(options)

toDiagnostics(errors) ==
    [i \in DOMAIN errors |->
        [severity |-> errors[i].severity, message |-> errors[i].message,
         start |-> errors[i].start, end |-> errors[i].end]]

IsError(d) == d.severity = "error"

\* The CompilationResult built from an output: per contract name the abi
\* and the two bytecodes, each prefixed with 0x.
CompilationResultOf(output) ==
    [kind      |-> "CompilationResult",
     contracts |-> { [name |-> c,
                      abi |-> AbiOf(c),
                      deployedBytecode |-> <<"0x">> \o ObjectCode(output.input, c),
                      bytecode |-> <<"0x">> \o ObjectCode(output.input, c)] :
                     c \in output.contracts }]

Return(ref) == [kind |-> "return", ref |-> ref, errors |-> <<>>]
Throw(name, errors) == [kind |-> name, ref |-> 0, errors |-> errors]

\* A compile that returns the cached result but never stores a new one.
compileWithoutStore(st, source, options) ==
    LET hash == hashSource(source, options)
    IN  IF MapHas(st.compilationCache, hash)
        THEN [store |-> st, out |-> Return(MapGet(st.compilationCache, hash))]
        ELSE LET input == buildSolcInput(source, options)
                 output == solcCompile(input)
                 st1 == [st EXCEPT !.solcLog = Append(@, [input |-> input, by |-> "compile"])]
                 errors == SelectSeq(toDiagnostics(output.errors), IsError)
             IN  IF Len(errors) > 0
                 THEN [store |-> st1, out |-> Throw("SolCompilationError", errors)]
                 ELSE [store |-> [st1 EXCEPT
                                    !.heap = Append(@, CompilationResultOf(output))],
                       out |-> Return(Len(st1.heap) + 1)]

\* A compile that stores the result before it looks at the diagnostics.
compileStoringFailures(st, source, options) ==
    LET hash == hashSource(source, options)
    IN  IF MapHas(st.compilationCache, hash)
        THEN [store |-> st, out |-> Return(MapGet(st.compilationCache, hash))]
        ELSE LET input == buildSolcInput(source, options)
                 output == solcCompile(input)
                 st1 == [st EXCEPT !.solcLog = Append(@, [input |-> input, by |-> "compile"])]
                 errors == SelectSeq(toDiagnostics(output.errors), IsError)
                 ref == Len(st1.heap) + 1
                 st2 == [st1 EXCEPT
                            !.heap = Append(@, CompilationResultOf(output)),
                            !.compilationCache = MapSet(@, hash, ref)]
             IN  IF Len(errors) > 0
                 THEN [store |-> st2, out |-> Throw("SolCompilationError", errors)]
                 ELSE [store |-> st2, out |-> Return(ref)]

\* runtime/compiler.ts compile: the store after the call and its outcome.
compile(st, source, options) ==
    LET hash == hashSource(source, options)
    IN  IF MapHas(st.compilationCache, hash)
        THEN [store |-> st, out |-> Return(MapGet(st.compilationCache, hash))]
        ELSE LET input == buildSolcInput(source, options)
                 output == solcCompile(input)
                 st1 == [st EXCEPT !.solcLog = Append(@, [input |-> input, by |-> "compile"])]
                 errors == SelectSeq(toDiagnostics(output.errors), IsError)
             IN  IF Len(errors) > 0
                 THEN [store |-> st1, out |-> Throw("SolCompilationError", errors)]
                 ELSE LET ref == Len(st1.heap) + 1
                      IN  [store |-> [st1 EXCEPT
                                        !.heap = Append(@, CompilationResultOf(output)),
                                        !.compilationCache = MapSet(@, hash, ref)],
                           out |-> Return(ref)]

\* solc.ts compileCached: caches the parsed output, errors included.
compileCached(st, source, options) ==
    LET key == source \o JSONstringify(options)
    IN  IF MapHas(st.cache, key)
        THEN [store |-> st, out |-> Return(MapGet(st.cache, key))]
        ELSE LET input == buildSolcInput(source, options)
                 output == solcCompile(input)
                 ref == Len(st.heap) + 1
             IN  [store |-> [st EXCEPT
                               !.solcLog = Append(@, [input |-> input, by |-> "compileCached"]),
                               !.heap = Append(@, [kind |-> "SolcStandardOutput",
                                                   output |-> output]),
                               !.cache = MapSet(@, key, ref)],
                  out |-> Return(ref)]

\* compileToArtifacts without the test of the errors' severity.
compileToArtifactsLenient(st, source, options) ==
    LET got == compileCached(st, source, options)
        output == got.store.heap[got.out.ref].output
    IN  [store |-> [got.store EXCEPT
                      !.heap = Append(@, CompilationResultOf(output))],
         out |-> Return(Len(got.store.heap) + 1)]

\* solc.ts compileToArtifacts: builds a new result object on every call.
compileToArtifacts(st, source, options) ==
    LET got == compileCached(st, source, options)
        output == got.store.heap[got.out.ref].output
        errors == SelectSeq(output.errors, IsError)
    IN  IF Len(errors) > 0
        THEN [store |-> got.store, out |-> Throw("Error", errors)]
        ELSE [store |-> [got.store EXCEPT
                           !.heap = Append(@, CompilationResultOf(output))],
              out |-> Return(Len(got.store.heap) + 1)]

---------------------------------------------------------------------------
(* The build transform.                                                    *)

\* ast-utils.ts isSolTag: sol("Name"), one argument, a string literal.
isSolTag(tag) ==
    /\ tag.kind = "CallExpression"
    /\ tag.expression.kind = "Identifier"
    /\ tag.expression.name = "sol"
    /\ Len(tag.arguments) = 1
    /\ tag.arguments[1].kind = "StringLiteral"

contractNameOf(tag) == tag.arguments[1].text

IsInitializer(e) == e.kind # "NoInitializer"
IsConstructor(item) == item.type = "constructor"

\* ts.forEachChild: the children of a node, in source order.
Children(n) ==
    CASE n.kind = "VariableStatement" ->
            SelectSeq([i \in DOMAIN n.declarations |-> n.declarations[i].initializer],
                      IsInitializer)
      [] n.kind = "BinaryExpression" -> <<n.left, n.right>>
      [] n.kind = "TemplateExpression" ->
            [i \in DOMAIN n.templateSpans |-> n.templateSpans[i].expression]
      [] n.kind = "TaggedTemplateExpression" -> <<n.tag, n.template>>
      [] n.kind = "CallExpression" -> <<n.expression>> \o n.arguments
      [] OTHER -> <<>>

RECURSIVE visit(_)
RECURSIVE visitEach(_, _)
\* The sol-tagged templates the transform's visit reaches from n, in order:
\* a matched node is handled and its children are not visited.
visit(n) ==
    IF n.kind = "TaggedTemplateExpression" /\ isSolTag(n.tag)
    THEN <<n>>
    ELSE visitEach(Children(n), 1)

visitEach(nodes, i) ==
    IF i > Len(nodes) THEN <<>>
    ELSE visit(nodes[i]) \o visitEach(nodes, i + 1)

RECURSIVE Descendants(_)
\* n and every node below it.
Descendants(n) ==
    {n} \cup UNION { Descendants(Children(n)[i]) : i \in DOMAIN Children(n) }

\* /\bsol\s*\(\s*["'][^"']+["']\s*\)/.test(code): the text holds a call
\* sol("...") whose one argument is a non-empty string literal without a
\* quote.
fastPath(statements) ==
    \E i \in DOMAIN statements :
        \E n \in Descendants(statements[i]) :
            /\ n.kind = "CallExpression"
            /\ n.expression.kind = "Identifier"
            /\ n.expression.name = "sol"
            /\ Len(n.arguments) = 1
            /\ n.arguments[1].kind = "StringLiteral"
            /\ n.arguments[1].text # <<>>
            /\ ~Occurs("'", n.arguments[1].text)

\* bundler/unplugin.ts getConstructorInputs
getConstructorInputs(abi) ==
    LET ctors == SelectSeq(abi, IsConstructor)
    IN  IF ctors = <<>> THEN <<>> ELSE ctors[1].inputs

\* artifacts[contractName]: the contract of that name in a CompilationResult.
HasContract(result, name) == \E c \in result.contracts : c.name = name
ContractOf(result, name) == CHOOSE c \in result.contracts : c.name = name

\* The text a site is replaced with: the constructor expression with the
\* JSON of the name and of the artifacts.
Replacement(version, name, result) ==
    [kind |-> "replacement",
     callee |-> IF version = "bundler" THEN "__InlineContract.fromArtifacts"
                ELSE "new __InlineContract",
     name |-> name, artifacts |-> result.contracts]
\* The site's own source text, untouched.
Original(n) == [kind |-> "original", node |-> n]

\* What the transform carries from site to site: the store, the
\* namedEntries Map, the text of each site so far, what was observed of each
\* compile, and the exception that ended the visit, if any.
\* The body of visit for the matched node n.
visitSite(n, statements, version, acc) ==
    LET contractName == contractNameOf(n.tag)
        soliditySource == extractTemplateSource(n.template, statements, MaxStack)
        got == IF version = "bundler"
               THEN compile(acc.store, soliditySource.text, acc.options)
               ELSE compileToArtifacts(acc.store, soliditySource.text, acc.options)
        obs == [source |-> soliditySource, out |-> got.out,
                solcCalls |-> Len(got.store.solcLog) - Len(acc.store.solcLog)]
        artifacts == got.store.heap[got.out.ref]
        abi == IF HasContract(artifacts, contractName)
               THEN ContractOf(artifacts, contractName).abi ELSE <<>>
        entry == [contractName |-> contractName,
                  constructorInputs |-> getConstructorInputs(abi),
                  abi |-> abi]
    IN  IF soliditySource.tag = "RangeError"
        THEN [acc EXCEPT !.thrown = Throw("RangeError", <<>>)]
        ELSE IF soliditySource.tag = "undefined"
        THEN [acc EXCEPT !.text = Append(@, Original(n)),
                         !.seen = Append(@, [source |-> soliditySource,
                                             out |-> [kind |-> "none", ref |-> 0,
                                                      errors |-> <<>>],
                                             solcCalls |-> 0])]
        ELSE IF got.out.kind # "return"
        THEN [acc EXCEPT !.store = got.store, !.thrown = got.out,
                         !.seen = Append(@, obs)]
        ELSE [acc EXCEPT
                !.store = got.store,
                !.namedEntries =
                    IF version = "bundler"
                    THEN MapSet(@, contractName \o <<"\\0">> \o soliditySource.text,
                                entry)
                    ELSE @,
                !.text = Append(@, Replacement(version, contractName, artifacts)),
                !.hasReplacements = TRUE,
                !.seen = Append(@, obs)]

RECURSIVE transformSites(_, _, _, _, _)
\* The visit of sites i.. ; an exception ends it.
transformSites(sites, i, statements, version, acc) ==
    IF i > Len(sites) \/ acc.thrown.kind # "none" THEN acc
    ELSE CHOOSE end \in
            { transformSites(sites, i + 1, statements, version, next) :
                next \in { visitSite(sites[i], statements, version, acc) } } : TRUE

\* One import is prepended for every rewritten site.
prependImportPerSite(end) ==
    IF end.thrown.kind # "none" THEN 0
    ELSE Cardinality({ k \in DOMAIN end.text : end.text[k].kind = "replacement" })
\* if (!hasReplacements) return undefined; s.prepend(import ...): the number
\* of imports in the output.
prependImport(end) ==
    IF end.thrown.kind = "none" /\ end.hasReplacements THEN 1 ELSE 0

\* transformSolTemplates of a file (`statements`), in the version of the
\* bundler plugin ("bundler": compile, namedEntries) or of the plugin before
\* it ("loader": compileToArtifacts).  The result is "undefined" (no change),
\* "code" (the rewritten text: one import and the text of each site) or the
\* exception thrown.
transformSolTemplates(statements, st, entries, options, version) ==
    LET start == [store |-> st, namedEntries |-> entries, options |-> options,
                  text |-> <<>>, seen |-> <<>>, hasReplacements |-> FALSE,
                  thrown |-> [kind |-> "none", ref |-> 0, errors |-> <<>>]]
        sites == visitEach(statements, 1)
        finish(end) ==
            [store |-> end.store, namedEntries |-> end.namedEntries,
             text |-> end.text, seen |-> end.seen, thrown |-> end.thrown,
             sites |-> sites,
             result |-> IF end.thrown.kind # "none" THEN "throw"
                        ELSE IF ~end.hasReplacements THEN "undefined"
                        ELSE "code",
             imports |-> prependImport(end)]
    IN  IF ~fastPath(statements)
        THEN [store |-> st, namedEntries |-> entries, text |-> <<>>, seen |-> <<>>,
              thrown |-> start.thrown, sites |-> <<>>, result |-> "undefined",
              imports |-> 0]
        ELSE CHOOSE r \in
                { finish(end) :
                    end \in { transformSites(sites, 1, statements, version, start) } } :
                TRUE

---------------------------------------------------------------------------
(* Callers of the compile functions.  A call is requested (it is in        *)
(* flight, e.g. the transform of a file the bundler has queued), runs to   *)
(* completion without interruption (the functions are synchronous) and     *)
(* hands its outcome to the caller.                                        *)

\* Calls requested in a behaviour.
MaxCalls == 3

Callers == {"c1", "c2"}
Functions == {"compile", "compileToArtifacts"}
CompileInputs ==
    { [source |-> <<"L">>, options |-> NoOptions],
      [source |-> <<"L">>, options |-> OptimizerOff],
      [source |-> <<"L", "w">>, options |-> NoOptions],
      [source |-> <<"x", "w">>, options |-> NoOptions] }

NoOutcome == [kind |-> "none", ref |-> 0, errors |-> <<>>]
\* A caller's record: the call, whether another call for the same key was in
\* flight together with it, and what the caller observed of the call: its
\* outcome, its place in the order of completion, the solc invocations it
\* made, compilationCache before and after it.
IdleCaller ==
    [pc |-> "idle", fn |-> "none", source |-> <<>>, options |-> NoOptions,
     overlapped |-> FALSE, out |-> NoOutcome, solcCalls |-> 0, seq |-> 0,
     before |-> EmptyMap, after |-> EmptyMap]

---------------------------------------------------------------------------
(* SpecFold: fold an expression of a file.                                 *)

NotCalled == [tag |-> "none", text |-> <<>>]

\* No solc error projected yet.
NotProjected == [from |-> 0, to |-> 0, start |-> -1, end |-> -1, length |-> 0]

\* getSemanticDiagnostics not called yet.
NotDiagnosed ==
    [file |-> <<>>, crashing |-> {}, prior |-> <<>>, result |-> "none",
     diagnostics |-> <<>>, literals |-> <<>>, seen |-> <<>>]

\* init() ran, create() did not: pluginInfo is undefined.  `dateNow` is
\* what Date.now() returns next, `regenerations` the values of `now` at
\* which a regeneration completed.
PluginIdle ==
    [created |-> FALSE, lastRegenerate |-> 0, cachedExternalFiles |-> <<>>,
     dateNow |-> 0, regenerations |-> <<>>]
NoExternalCall ==
    [result |-> "none", returned |-> <<>>, now |-> 0, lastBefore |-> 0,
     cachedBefore |-> <<>>, scanned |-> FALSE, fsTouched |-> FALSE,
     createdBefore |-> FALSE]

MapIdle ==
    /\ plugin = PluginIdle
    /\ external = NoExternalCall
    /\ site = NoSubstitutionTemplateLiteral(<<>>)
    /\ mapFile = <<>>
    /\ compiledPos = 0
    /\ side = "start"
    /\ mapped = -1
    /\ projected = NotProjected
    /\ diagnosed = NotDiagnosed

StoreEmpty ==
    /\ compilationCache = EmptyMap
    /\ cache = EmptyMap
    /\ heap = <<>>
    /\ solcLog = <<>>

CacheIdle ==
    /\ StoreEmpty
    /\ callers = [c \in Callers |-> IdleCaller]
    /\ clock = 0

NotTransformed ==
    [file |-> <<>>, version |-> "none", result |-> "none", text |-> <<>>,
     imports |-> 0, sites |-> <<>>, seen |-> <<>>, firstOfBuild |-> FALSE,
     entriesBefore |-> <<>>]

BuildIdle ==
    /\ namedEntries = EmptyMap
    /\ phase = "idle"
    /\ transformed = NotTransformed

\* No file scanned yet.
ScanIdle ==
    /\ scanned = <<>>
    /\ scanner = "none"
    /\ solLiterals = <<>>

NotGenerated == [by |-> "none", content |-> <<>>, duplicates |-> <<>>]
CodegenIdle ==
    /\ typeEntries = <<>>
    /\ generated = NotGenerated

\* fs.existsSync(typesFile) is false.
Absent == [exists |-> FALSE, content |-> <<>>]
NoPass ==
    [path |-> "none", returned |-> "undefined", writes |-> 0, unlinks |-> 0,
     content |-> <<>>, before |-> Absent, repeat |-> FALSE]

TypesIdle ==
    /\ typesFile = Absent
    /\ project = <<>>
    /\ pass = NoPass

ToolsIdle == ScanIdle /\ CodegenIdle /\ TypesIdle

InitFold ==
    /\ sourceFile \in SourceFiles
    /\ node \in Expressions
    /\ locals \in LocalScopes
    /\ foldResult = NotCalled
    /\ MapIdle
    /\ CacheIdle
    /\ BuildIdle
    /\ ToolsIdle

Fold ==
    /\ foldResult = NotCalled
    /\ foldResult' = resolveStringExpression(node, sourceFile, MaxStack)
    /\ UNCHANGED <<sourceFile, node, locals>>
    /\ UNCHANGED mapVars
    /\ UNCHANGED cacheVars
    /\ UNCHANGED buildVars
    /\ UNCHANGED toolVars

NextFold == Fold

SpecFold == InitFold /\ [][NextFold]_vars

---------------------------------------------------------------------------
(* SpecMap: map foreign offsets of a resolved site to host offsets.        *)

FoldIdle ==
    /\ sourceFile = <<>>
    /\ node = CallExpression
    /\ locals = <<>>
    /\ foldResult = [tag |-> "none", text |-> <<>>]

\* The diagnostics path maps only sites whose source resolved.
SiteSource(s, statements) == extractTemplateSource(s.template, statements, MaxStack)

InitMap ==
    /\ site \in Sites
    /\ mapFile \in MapFiles
    /\ SiteSource(site, mapFile).tag = "string"
    /\ compiledPos = 0
    /\ side = "start"
    /\ mapped = -1
    /\ projected = NotProjected
    /\ diagnosed = NotDiagnosed
    /\ plugin = PluginIdle
    /\ external = NoExternalCall
    /\ FoldIdle
    /\ CacheIdle
    /\ BuildIdle
    /\ ToolsIdle

\* The largest offset solc may report for a text: its sourceLocation counts
\* the UTF-8 bytes of the compiled source, which are more than the
\* characters of the text when a character takes several bytes.
LastOffset(text) == IF text = <<>> THEN 0 ELSE Len(text) + MaxOvershoot

\* error.sourceLocation.start / .end lie in 0..byte length of the compiled
\* source.  The mapper keeps no state between calls: a behaviour is one
\* call on its site.
MapPos ==
    \E k \in 0..LastOffset(SiteSource(site, mapFile).text), sd \in {"start", "end"} :
        /\ mapped = -1
        /\ compiledPos' = k
        /\ side' = sd
        /\ mapped' = mapCompiledPosToEditor(site, mapFile, k, sd)
        /\ UNCHANGED <<site, mapFile, projected, diagnosed, plugin, external>>
        /\ UNCHANGED foldVars
        /\ UNCHANGED cacheVars
        /\ UNCHANGED buildVars
        /\ UNCHANGED toolVars

NextMap == MapPos

SpecMap == InitMap /\ [][NextMap]_vars

---------------------------------------------------------------------------
(* SpecProject: the editor's getSemanticDiagnostics projects the           *)
(* sourceLocation of a solc error onto the host file.                      *)

\* Interpolations of a site whose errors are projected.
MaxProjectSpans == 2

\* The body of the loop over output.errors for an error of inline.sol:
\* start and end are mapped with their own side, and the length is
\* Math.max(end - start, 1).
projectError(s, statements, from, to) ==
    LET start == mapCompiledPosToEditor(s, statements, from, "start")
        end == mapCompiledPosToEditor(s, statements, to, "end")
    IN  [from |-> from, to |-> to, start |-> start, end |-> end,
         length |-> IF end - start > 1 THEN end - start ELSE 1]

\* Sites at the largest host offset, their expressions written without
\* whitespace.
ProjectSites ==
    { s \in Sites :
        /\ s.start = MaxStart
        /\ s.template.kind = "TemplateExpression"
           => /\ Len(s.template.templateSpans) <= MaxProjectSpans
              /\ \A i \in DOMAIN s.template.templateSpans :
                    s.template.templateSpans[i].lead = 0 }

InitProject ==
    /\ site \in ProjectSites
    /\ mapFile \in MapFiles
    /\ SiteSource(site, mapFile).tag = "string"
    /\ compiledPos = 0
    /\ side = "start"
    /\ mapped = -1
    /\ projected = NotProjected
    /\ diagnosed = NotDiagnosed
    /\ plugin = PluginIdle
    /\ external = NoExternalCall
    /\ FoldIdle
    /\ CacheIdle
    /\ BuildIdle
    /\ ToolsIdle

\* solc reports an error with sourceLocation.start <= sourceLocation.end.
\* Each error is projected on its own: a behaviour is one error of its site.
ProjectError ==
    \E from \in 0..LastOffset(SiteSource(site, mapFile).text) :
        \E to \in from..LastOffset(SiteSource(site, mapFile).text) :
            /\ projected = NotProjected
            /\ projected' = projectError(site, mapFile, from, to)
            /\ UNCHANGED <<site, mapFile, compiledPos, side, mapped, diagnosed,
                           plugin, external>>
            /\ UNCHANGED foldVars
            /\ UNCHANGED cacheVars
            /\ UNCHANGED buildVars
            /\ UNCHANGED toolVars

NextProject == ProjectError

SpecProject == InitProject /\ [][NextProject]_vars


---------------------------------------------------------------------------
(* SpecCache: callers of compile and compileToArtifacts in one process.    *)

InitCache ==
    /\ CacheIdle
    /\ FoldIdle
    /\ MapIdle
    /\ BuildIdle
    /\ ToolsIdle

Pending(c) == callers[c].pc = "pending"

SameCall(r, fn, input) ==
    /\ r.fn = fn
    /\ hashSource(r.source, r.options) = hashSource(input.source, input.options)

Request(c) ==
    /\ callers[c].pc = "idle"
    /\ clock + Cardinality({ d \in Callers : callers[d].pc # "idle" }) < MaxCalls
    /\ \E fn \in Functions, input \in CompileInputs :
        LET meets(d) == d # c /\ Pending(d) /\ SameCall(callers[d], fn, input)
        IN  callers' =
              [d \in Callers |->
                 IF d = c
                 THEN [IdleCaller EXCEPT !.pc = "pending", !.fn = fn,
                                         !.source = input.source,
                                         !.options = input.options,
                                         !.overlapped = \E e \in Callers : meets(e)]
                 ELSE IF meets(d)
                 THEN [callers[d] EXCEPT !.overlapped = TRUE]
                 ELSE callers[d]]
    /\ UNCHANGED <<storeVars, clock>>
    /\ UNCHANGED <<foldVars, mapVars, buildVars, toolVars>>

\* The caller's record and the store after a call that ended in `got`.
Complete(c, got) ==
    /\ compilationCache' = got.store.compilationCache
    /\ cache' = got.store.cache
    /\ heap' = got.store.heap
    /\ solcLog' = got.store.solcLog
    /\ clock' = clock + 1
    /\ callers' = [callers EXCEPT ![c] =
                     [@ EXCEPT !.pc = "done", !.out = got.out,
                               !.solcCalls = Len(got.store.solcLog) - Len(solcLog),
                               !.seq = clock + 1,
                               !.before = compilationCache,
                               !.after = got.store.compilationCache]]

RunCompile(c) ==
    /\ Pending(c)
    /\ callers[c].fn = "compile"
    /\ \E got \in { compile(Store, callers[c].source, callers[c].options) } :
         Complete(c, got)
    /\ UNCHANGED <<foldVars, mapVars, buildVars, toolVars>>

RunCompileToArtifacts(c) ==
    /\ Pending(c)
    /\ callers[c].fn = "compileToArtifacts"
    /\ \E got \in { compileToArtifacts(Store, callers[c].source,
                                       callers[c].options) } :
         Complete(c, got)
    /\ UNCHANGED <<foldVars, mapVars, buildVars, toolVars>>

\* The caller takes the outcome and is free to call again.
Forget(c) ==
    /\ callers[c].pc = "done"
    /\ callers' = [callers EXCEPT ![c] = IdleCaller]
    /\ UNCHANGED <<storeVars, clock>>
    /\ UNCHANGED <<foldVars, mapVars, buildVars, toolVars>>

NextCache ==
    \E c \in Callers :
        \/ Request(c)
        \/ RunCompile(c)
        \/ RunCompileToArtifacts(c)
        \/ Forget(c)

SpecCache == InitCache /\ [][NextCache]_vars

---------------------------------------------------------------------------
(* SpecBuild: the bundler plugin.  buildStart opens a build, the transform *)
(* handler runs on each file of the build; in watch mode builds follow one *)
(* another in the same process.  The plugin before it has no buildStart    *)
(* and its transform is run on a file at any time.                         *)

\* Calls of transformSolTemplates in a behaviour.
MaxTransforms == 2
\* Statements in a file handed to the transform.
MaxBuildStatements == 2

SolTag(name) == Call(Identifier("sol"), <<StringLiteral(name)>>)
Const(name, init) == VariableStatement("const", <<VariableDeclaration(name, init)>>)

\* const A = "L"
ConstA == Const("A", StringLiteral(<<"L">>))
\* const A = A
CyclicA == Const("A", Identifier("A"))
\* sol("L")`L`
SiteL == Const("c", TaggedTemplateExpression(SolTag(<<"L">>),
                        NoSubstitutionTemplateLiteral(<<"L">>)))
\* sol("G")`G${A}`: A may or may not be a const of the file
SiteGA == Const("d", TaggedTemplateExpression(SolTag(<<"G">>),
                        TemplateExpression(<<"G">>, <<TemplateSpan(Identifier("A"), <<>>)>>)))
\* sol("L")`L${g()}w`: never resolvable
SiteUnresolvable == Const("e", TaggedTemplateExpression(SolTag(<<"L">>),
                        TemplateExpression(<<"L">>, <<TemplateSpan(CallExpression, <<"w">>)>>)))
\* sol("L")`Lx`: does not compile
SiteBad == Const("f", TaggedTemplateExpression(SolTag(<<"L">>),
                        NoSubstitutionTemplateLiteral(<<"L", "x">>)))
\* sol("")`L`: the name is the empty string
SiteEmptyName == Const("p", TaggedTemplateExpression(SolTag(<<>>),
                        NoSubstitutionTemplateLiteral(<<"L">>)))
\* sol("'")`L`: the name is a quote character
SiteQuoteName == Const("q", TaggedTemplateExpression(SolTag(<<"'">>),
                        NoSubstitutionTemplateLiteral(<<"L">>)))
\* sol("L") with one interpolation, whose expression is the tagged template
\* sol("G") of the text G.
NestedSite ==
    TaggedTemplateExpression(
        SolTag(<<"L">>),
        TemplateExpression(<<"L">>,
            <<TemplateSpan(TaggedTemplateExpression(SolTag(<<"G">>),
                               NoSubstitutionTemplateLiteral(<<"G">>)),
                           <<>>)>>))

\* css`L`: not a sol tag
OtherTag == Const("h", TaggedTemplateExpression(Identifier("css"),
                        NoSubstitutionTemplateLiteral(<<"L">>)))

BuildStatements ==
    { ConstA, CyclicA, SiteL, SiteGA, SiteUnresolvable, SiteBad, OtherTag,
      SiteEmptyName, SiteQuoteName, Const("n", NestedSite) }

\* The files handed to the transform: those of at most MaxBuildStatements
\* statements among files with no site, one site and several sites, sites
\* that resolve, do not resolve, and do not compile.
BuildFiles ==
    { f \in { <<>>,
              <<OtherTag>>,
              <<SiteL>>,
              <<SiteBad>>,
              <<SiteUnresolvable>>,
              <<SiteGA>>,
              <<ConstA, SiteGA>>,
              <<CyclicA, SiteGA>>,
              <<SiteL, SiteL>>,
              <<SiteL, SiteUnresolvable>>,
              <<SiteUnresolvable, SiteL>>,
              <<SiteL, SiteBad>>,
              <<SiteGA, SiteBad>>,
              <<SiteEmptyName>>,
              <<SiteQuoteName>>,
              <<SiteEmptyName, SiteL>>,
              <<Const("n", NestedSite)>>,
              <<ConstA, SiteGA, SiteL>>,
              <<SiteL, SiteUnresolvable, SiteL>> } :
        Len(f) <= MaxBuildStatements }

InitBuild ==
    /\ BuildIdle
    /\ StoreEmpty
    /\ callers = [c \in Callers |-> IdleCaller]
    /\ clock = 0
    /\ FoldIdle
    /\ MapIdle
    /\ ToolsIdle

\* unplugin buildStart
BuildStart ==
    /\ namedEntries' = EmptyMap
    /\ phase' = "started"
    /\ UNCHANGED <<transformed, cacheVars, foldVars, mapVars, toolVars>>

\* The store, namedEntries and the record of the call after a transform.
Transformed(file, version, got) ==
    /\ compilationCache' = got.store.compilationCache
    /\ cache' = got.store.cache
    /\ heap' = got.store.heap
    /\ solcLog' = got.store.solcLog
    /\ namedEntries' = got.namedEntries
    /\ clock' = clock + 1
    /\ transformed' = [file |-> file, version |-> version, result |-> got.result,
                       text |-> got.text, imports |-> got.imports,
                       sites |-> got.sites, seen |-> got.seen,
                       firstOfBuild |-> phase = "started",
                       entriesBefore |-> namedEntries]

\* unplugin transform.handler of the bundler plugin, inside a build.
Transform ==
    /\ phase # "idle"
    /\ clock < MaxTransforms
    /\ \E file \in BuildFiles :
         \E got \in { transformSolTemplates(file, Store, namedEntries,
                                            NoOptions, "bundler") } :
            Transformed(file, "bundler", got)
    /\ phase' = "transforming"
    /\ UNCHANGED <<callers, foldVars, mapVars, toolVars>>

\* transform.handler of the earlier plugin and of the webpack loader.
TransformLoader ==
    /\ clock < MaxTransforms
    /\ \E file \in BuildFiles :
         \E got \in { transformSolTemplates(file, Store, namedEntries,
                                            NoOptions, "loader") } :
            Transformed(file, "loader", got)
    /\ UNCHANGED <<phase, callers, foldVars, mapVars, toolVars>>

NextBuild ==
    \/ BuildStart
    \/ Transform
    \/ TransformLoader

SpecBuild == InitBuild /\ [][NextBuild]_vars

---------------------------------------------------------------------------
(* Properties of the position mapper.                                      *)

FoldedLen(s, statements, i) ==
    Len(resolveStringExpression(s.template.templateSpans[i].expression,
                                statements, MaxStack).text)

RECURSIVE ForeignOffsetOfSpan(_, _, _)
\* The foreign offset at which the folded value of span i begins: the head,
\* then every earlier folded value and the literal after it.
ForeignOffsetOfSpan(s, statements, i) ==
    IF i = 1 THEN Len(s.template.head)
    ELSE ForeignOffsetOfSpan(s, statements, i - 1)
         + FoldedLen(s, statements, i - 1)
         + Len(s.template.templateSpans[i - 1].literal)

InsideInterpolation(i) ==
    /\ site.template.kind = "TemplateExpression"
    /\ i \in DOMAIN site.template.templateSpans
    /\ ForeignOffsetOfSpan(site, mapFile, i) <= compiledPos
    /\ compiledPos < ForeignOffsetOfSpan(site, mapFile, i) + FoldedLen(site, mapFile, i)

\* C2: a foreign offset inside the folded value of an interpolation maps to
\* the start of the interpolation expression (side = start) or to its end
\* (side = end), a point between the `${` and the `}`, also when the folded
\* value is as long as the expression's own source text.
C2_InterpolationCollapses ==
    mapped # -1 =>
        \A i \in 1..MaxSpans + 1 :
            InsideInterpolation(i) =>
                /\ mapped = IF side = "start" THEN ExpressionStart(site, i)
                                              ELSE ExpressionEnd(site, i)
                /\ SpanOpen(site, i) <= mapped
                /\ mapped <= LiteralStart(site, i)

\* The mapper was asked for the end side of an offset inside the second
\* interpolation, whose folded value is as long as its source text.
C2_Witness ==
    /\ mapped # -1
    /\ side = "end"
    /\ InsideInterpolation(2)
    /\ FoldedLen(site, mapFile, 2)
         = SourceWidth(site.template.templateSpans[2].expression)

\* C3: without interpolation, with the opening backtick at host offset H,
\* foreign offset k of the text maps (side = start) to H + 1 + k, a host
\* offset between the two backticks.
C3_AffineShift ==
    ( /\ mapped # -1
      /\ site.template.kind = "NoSubstitutionTemplateLiteral"
      /\ side = "start"
      /\ compiledPos < Len(site.template.text) )
    => /\ mapped = site.start + 1 + compiledPos
       /\ site.start < mapped
       /\ mapped < TemplateEnd(site) - 1

C3_Witness ==
    /\ mapped # -1
    /\ site.template.kind = "NoSubstitutionTemplateLiteral"
    /\ side = "start"
    /\ site.start = 1
    /\ compiledPos = 1
    /\ Len(site.template.text) = 2
    /\ mapped = 3

---------------------------------------------------------------------------
(* Properties of the constant folder.                                      *)

\* C9: fold returns a string or unresolved; it never throws.
C9_FoldNeverThrows ==
    foldResult.tag \in {"none", "string", "undefined"}

\* Every name is declared at most once at the top level of the file.
DeclaredOnce(statements) ==
    \A i, j \in DOMAIN statements :
        ( /\ statements[i].kind = "VariableStatement"
          /\ statements[j].kind = "VariableStatement"
          /\ statements[i].declarations[1].name = statements[j].declarations[1].name )
        => i = j

\* The declaration statements of `scope` that declare `name`.
Declaring(name, scope) ==
    { i \in DOMAIN scope :
        /\ scope[i].kind = "VariableStatement"
        /\ scope[i].declarations[1].name = name }

\* The value of the binding of `name` in `scope`: its folded initializer when
\* the binding is const and initialized, unresolved otherwise.
BindingValue(name, scope) ==
    LET st == scope[CHOOSE i \in Declaring(name, scope) : TRUE]
    IN  IF st.flags = "const" /\ st.declarations[1].initializer.kind # "NoInitializer"
        THEN resolveStringExpression(st.declarations[1].initializer, sourceFile, MaxStack)
        ELSE Undefined

\* The binding an identifier refers to is the nearest enclosing one: the
\* enclosing function's, if it declares the name, else the top level's.
NearestBindingValue(name) ==
    IF Declaring(name, locals) # {} THEN BindingValue(name, locals)
    ELSE IF Declaring(name, sourceFile) # {} THEN BindingValue(name, sourceFile)
    ELSE Undefined

\* C10: an identifier folds to the folded initializer of its nearest
\* enclosing const binding, and is unresolved when that binding is mutable
\* or has no initializer; a template that interpolates an unresolved
\* identifier is unresolved.
C10_NearestImmutableBinding ==
    (foldResult.tag # "none" /\ DeclaredOnce(sourceFile)) =>
        /\ node.kind = "Identifier" => foldResult = NearestBindingValue(node.name)
        /\ ( /\ node.kind = "TemplateExpression"
             /\ NearestBindingValue(node.templateSpans[1].expression.name) = Undefined )
           => foldResult = Undefined


---------------------------------------------------------------------------
(* Properties of the compilation caches.                                   *)

Done(c) == callers[c].pc = "done"

\* a and b are completed calls of fn with the same content key, a first.
SameKeyInOrder(a, b, fn) ==
    /\ a # b
    /\ Done(a) /\ Done(b)
    /\ callers[a].fn = fn /\ callers[b].fn = fn
    /\ hashSource(callers[a].source, callers[a].options)
         = hashSource(callers[b].source, callers[b].options)
    /\ callers[a].seq < callers[b].seq

\* C1: of two calls of compile with the same content key, when the first
\* returned an artifact the second returns the same object and does not
\* invoke solc.
C1_SecondCallReturnsCached ==
    \A a, b \in Callers :
        (SameKeyInOrder(a, b, "compile") /\ callers[a].out.kind = "return")
        => /\ callers[b].out = Return(callers[a].out.ref)
           /\ callers[b].solcCalls = 0

C1_Witness ==
    \E a, b \in Callers :
        /\ SameKeyInOrder(a, b, "compile")
        /\ callers[a].out.kind = "return"
        /\ callers[a].solcCalls = 1
        /\ ~callers[b].overlapped

\* The error-severity entries of the output solc gives for a call's input.
OutputErrors(r) ==
    SelectSeq(solcCompile(buildSolcInput(r.source, r.options)).errors, IsError)

\* C4: when solc's output has an error-severity diagnostic, compile throws
\* SolCompilationError with exactly the error-severity diagnostics, stores
\* nothing for the key and leaves the cache as it was.
C4_FailedCompileNotCached ==
    \A c \in Callers :
        (Done(c) /\ callers[c].fn = "compile" /\ OutputErrors(callers[c]) # <<>>)
        => /\ callers[c].out.kind = "SolCompilationError"
           /\ Len(callers[c].out.errors) = Len(OutputErrors(callers[c]))
           /\ \A i \in DOMAIN callers[c].out.errors :
                /\ callers[c].out.errors[i].severity = "error"
                /\ callers[c].out.errors[i].message = OutputErrors(callers[c])[i].message
           /\ callers[c].after = callers[c].before
           /\ ~MapHas(compilationCache,
                      hashSource(callers[c].source, callers[c].options))

\* A failed compile that found the cache non-empty.
C4_Witness ==
    \E c \in Callers :
        /\ Done(c)
        /\ callers[c].fn = "compile"
        /\ callers[c].out.kind = "SolCompilationError"
        /\ callers[c].solcCalls = 1
        /\ callers[c].before # EmptyMap

\* The solc invocations compile made for the key of call r.
InvocationsFor(r) ==
    Cardinality({ i \in DOMAIN solcLog :
                    /\ solcLog[i].by = "compile"
                    /\ solcLog[i].input = buildSolcInput(r.source, r.options) })

\* a and b are completed calls of compile for one content key that were in
\* flight together.
InFlightTogether(a, b) ==
    /\ a # b
    /\ Done(a) /\ Done(b)
    /\ callers[a].fn = "compile" /\ callers[b].fn = "compile"
    /\ hashSource(callers[a].source, callers[a].options)
         = hashSource(callers[b].source, callers[b].options)
    /\ callers[a].overlapped /\ callers[b].overlapped

C7_CompileToArtifactsSameReference ==
    \A a, b \in Callers :
        (SameKeyInOrder(a, b, "compileToArtifacts") /\ callers[a].out.kind = "return")
        => /\ callers[b].out.kind = "return"
           /\ heap[callers[b].out.ref] = heap[callers[a].out.ref]
           /\ callers[b].solcCalls = 0
           /\ callers[b].out.ref = callers[a].out.ref

---------------------------------------------------------------------------
(* Properties of the build transform.                                      *)

\* The sites of the last transform whose source resolved, and the first
\* site of each resolved source among them.
SeenResolved(i) == transformed.seen[i].source.tag = "string"
FirstOfKey(i) ==
    /\ SeenResolved(i)
    /\ \A j \in 1..(i - 1) : transformed.seen[j].source # transformed.seen[i].source

\* C5: when a build begins the compilation cache is reset, so in the first
\* transform of the build the first compile of each source invokes solc:
\* no artifact of an earlier build is returned.
C5_BuildStartResetsCache ==
    /\ phase = "started" => compilationCache = EmptyMap
    /\ (transformed.version = "bundler" /\ transformed.firstOfBuild)
       => \A i \in DOMAIN transformed.seen :
            FirstOfKey(i) => transformed.seen[i].solcCalls = 1

\* Some interpolation of site n does not fold to a string.
HasUnfoldedInterpolation(n, statements) ==
    /\ n.template.kind = "TemplateExpression"
    /\ \E i \in DOMAIN n.template.templateSpans :
            resolveStringExpression(n.template.templateSpans[i].expression,
                                    statements, MaxStack).tag # "string"

\* C8: a site with an interpolation that does not fold has no resolved
\* source, the transform's output holds the site's own text unchanged
\* whatever happens to the other sites, and a file all of whose sites are
\* such sites comes back undefined.
C8_UnresolvedSiteUntouched ==
    transformed.version # "none"
    => /\ \A i \in DOMAIN transformed.sites :
            HasUnfoldedInterpolation(transformed.sites[i], transformed.file)
            => /\ extractTemplateSource(transformed.sites[i].template,
                                        transformed.file, MaxStack) = Undefined
               /\ transformed.result = "code"
                  => transformed.text[i] = Original(transformed.sites[i])
       /\ ( /\ transformed.sites # <<>>
            /\ \A i \in DOMAIN transformed.sites :
                 HasUnfoldedInterpolation(transformed.sites[i], transformed.file) )
          => transformed.result = "undefined"

\* Site n of the file resolves to a source for which solc reports an
\* error-severity diagnostic.
CompilesWithError(n, statements) ==
    LET src == extractTemplateSource(n.template, statements, MaxStack)
    IN  /\ src.tag = "string"
        /\ \E k \in DOMAIN SolcErrorsOf(src.text) :
                SolcErrorsOf(src.text)[k].severity = "error"

\* C23: when a site of the file compiles with an error-severity diagnostic,
\* the transform of the file throws: it returns no rewritten text (the
\* result is neither code nor undefined) and prepends no import.
C23_CompileErrorAbortsFile ==
    transformed.version # "none"
    => ( (\E i \in DOMAIN transformed.sites :
              CompilesWithError(transformed.sites[i], transformed.file))
         => /\ transformed.result = "throw"
            /\ transformed.imports = 0 )

\* A file whose first site compiled and whose second site does not: the
\* first site had its replacement when the transform threw.
C23_Witness ==
    /\ transformed.result = "throw"
    /\ Len(transformed.sites) = 2
    /\ CompilesWithError(transformed.sites[2], transformed.file)
    /\ Len(transformed.text) = 1
    /\ transformed.text[1].kind = "replacement"

\* The sites the syntax-tree scan of the file finds and can resolve.
ResolvableSites(statements) ==
    { i \in DOMAIN visitEach(statements, 1) :
        extractTemplateSource(visitEach(statements, 1)[i].template,
                              statements, MaxStack).tag = "string" }

\* C29: the fast path is sound: a file in which the scan finds a resolvable
\* site accepted by isSolTag passes the fast-path test, and its transform
\* does not come back undefined.
C29_FastPathSound ==
    transformed.version # "none"
    => ( ResolvableSites(transformed.file) # {}
         => /\ fastPath(transformed.file)
            /\ transformed.result # "undefined" )

\* C30: a transform that throws leaves namedEntries as it was before the
\* call.
C30_AbortLeavesNamedEntries ==
    (transformed.version # "none" /\ transformed.result = "throw")
    => namedEntries = transformed.entriesBefore

---------------------------------------------------------------------------
(* Properties of the folder on concatenations.                             *)

\* fold of an operand in the file being folded.
FoldOf(e) == resolveStringExpression(e, sourceFile, MaxStack)

\* C11: fold(a + b) is fold(a) followed by fold(b) when both sides resolve,
\* and unresolved when either side is unresolved; no operand is coerced.
C11_ConcatenationOrUnresolved ==
    (foldResult.tag # "none" /\ node.kind = "BinaryExpression"
                             /\ node.operatorToken = "+")
    => /\ (FoldOf(node.left).tag = "string" /\ FoldOf(node.right).tag = "string")
          => foldResult = Resolved(FoldOf(node.left).text \o FoldOf(node.right).text)
       /\ (FoldOf(node.left).tag = "undefined" \/ FoldOf(node.right).tag = "undefined")
          => foldResult = Undefined

---------------------------------------------------------------------------
(* The embedding scanner.  Two generations of it are in the repository:    *)
(* the editor's analysis module with its own isSolTag ("analysis"), and    *)
(* the scanner built on ast-utils.ts, which the cli's visit repeats        *)
(* ("ast-utils").                                                          *)

\* contractName of a recognised tag: a string, or undefined.
NoName == [defined |-> FALSE, text |-> <<>>]
Name(t) == [defined |-> TRUE, text |-> t]
\* `false`, and { contractName }
NotSolTag == [match |-> FALSE, contractName |-> NoName]
SolTagOf(contractName) == [match |-> TRUE, contractName |-> contractName]

\* editor analysis isSolTag: the plain form and the factory form.
isSolTagAnalysis(tag) ==
    IF tag.kind = "Identifier" /\ tag.name = "sol"
    THEN SolTagOf(NoName)
    ELSE IF /\ tag.kind = "CallExpression"
            /\ tag.expression.kind = "Identifier"
            /\ tag.expression.name = "sol"
            /\ Len(tag.arguments) = 1
            /\ tag.arguments[1].kind = "StringLiteral"
    THEN SolTagOf(Name(tag.arguments[1].text))
    ELSE NotSolTag

\* isSolTag as the scanner `v` applies it.
solTagBy(v, tag) ==
    IF v = "analysis" THEN isSolTagAnalysis(tag)
    ELSE IF isSolTag(tag) THEN SolTagOf(Name(contractNameOf(tag)))
    ELSE NotSolTag

\* editor analysis extractTemplateText: interpolations are not resolved.
extractTemplateText(template) ==
    IF template.kind = "NoSubstitutionTemplateLiteral"
    THEN Resolved(template.text)
    ELSE Undefined

RECURSIVE scanVisit(_, _, _)
RECURSIVE scanEach(_, _, _, _)
\* findSolTemplateLiterals' visit: a matching node is pushed, and the
\* children of every node are visited.
scanVisit(v, n, statements) ==
    ( IF n.kind = "TaggedTemplateExpression" /\ solTagBy(v, n.tag).match
      THEN << [source |-> IF v = "analysis" THEN extractTemplateText(n.template)
                          ELSE extractTemplateSource(n.template, statements, MaxStack),
               contractName |-> solTagBy(v, n.tag).contractName,
               node |-> n] >>
      ELSE <<>> )
    \o scanEach(v, Children(n), 1, statements)

scanEach(v, nodes, i, statements) ==
    IF i > Len(nodes) THEN <<>>
    ELSE scanVisit(v, nodes[i], statements) \o scanEach(v, nodes, i + 1, statements)

findSolTemplateLiterals(v, statements) == scanEach(v, statements, 1, statements)

---------------------------------------------------------------------------
(* SpecScan: files of tagged templates with tags of every shape, scanned   *)
(* by either scanner.                                                      *)

\* Statements in a scanned file.
MaxScanStatements == 2

Scanners == {"analysis", "ast-utils"}

PropertyAccessExpression == [kind |-> "PropertyAccessExpression"]

ScanTags ==
    { Identifier("sol"),                                   \* sol
      Identifier("css"),                                   \* css
      SolTag(<<"L">>),                                     \* sol("L")
      Call(Identifier("sol"), <<>>),                       \* sol()
      Call(Identifier("sol"),
           <<StringLiteral(<<"L">>), StringLiteral(<<"G">>)>>),   \* sol("L", "G")
      Call(Identifier("sol"), <<Identifier("A")>>),        \* sol(A)
      Call(Identifier("sol"),
           <<NoSubstitutionTemplateLiteral(<<"L">>)>>),    \* sol(`L`)
      Call(Identifier("css"), <<StringLiteral(<<"L">>)>>), \* css("L")
      Call(PropertyAccessExpression, <<StringLiteral(<<"L">>)>>) }  \* x.sol("L")

ScanStatements ==
    { Const("c", TaggedTemplateExpression(tag, NoSubstitutionTemplateLiteral(<<"L">>))) :
        tag \in ScanTags }
    \cup { Const("c", NestedSite) }

ScanFiles == SeqsUpTo(ScanStatements, MaxScanStatements)

InitScan ==
    /\ ScanIdle
    /\ CodegenIdle
    /\ TypesIdle
    /\ FoldIdle
    /\ MapIdle
    /\ CacheIdle
    /\ BuildIdle

ScanFile ==
    \E file \in ScanFiles, v \in Scanners :
        /\ scanned' = file
        /\ scanner' = v
        /\ solLiterals' = findSolTemplateLiterals(v, file)
        /\ UNCHANGED <<codegenVars, typesVars>>
        /\ UNCHANGED <<foldVars, mapVars, cacheVars, buildVars>>

NextScan == ScanFile

SpecScan == InitScan /\ [][NextScan]_vars

\* The tagged templates of the scanned file, wherever they are.
TaggedTemplatesOf(statements) ==
    { n \in UNION { Descendants(statements[i]) : i \in DOMAIN statements } :
        n.kind = "TaggedTemplateExpression" }

\* The two marker shapes: the bare tag, and the tag invoked with exactly one
\* string-literal argument.
BareMarker(tag) == tag = Identifier("sol")
NamedMarker(tag) ==
    \E x \in {<<"L">>, <<"G">>} : tag = Call(Identifier("sol"), <<StringLiteral(x)>>)

\* The records the scanner reported for node n.
ReportedFor(n) == { i \in DOMAIN solLiterals : solLiterals[i].node = n }

\* C12: the scanner reports a tagged template exactly when its tag is the
\* bare marker (name absent) or the marker invoked with one string literal
\* (the name is the argument); a tag of any other shape is not a site.
C12_TwoMarkerShapes ==
    scanner # "none"
    => \A n \in TaggedTemplatesOf(scanned) :
        /\ BareMarker(n.tag)
           => /\ ReportedFor(n) # {}
              /\ \A i \in ReportedFor(n) : solLiterals[i].contractName = NoName
        /\ NamedMarker(n.tag)
           => /\ ReportedFor(n) # {}
              /\ \A i \in ReportedFor(n) :
                    solLiterals[i].contractName = Name(n.tag.arguments[1].text)
        /\ (~BareMarker(n.tag) /\ ~NamedMarker(n.tag)) => ReportedFor(n) = {}

\* Tagged template n sits under an interpolation of the tagged template m.
NestedIn(n, m) ==
    /\ m.kind = "TaggedTemplateExpression"
    /\ m.template.kind = "TemplateExpression"
    /\ \E i \in DOMAIN m.template.templateSpans :
            n \in Descendants(m.template.templateSpans[i].expression)

\* C22: the scan does not descend into a matched site: a tagged template
\* nested in an interpolation of a reported site is not reported as a site
\* of its own.
C22_NoSiteInsideMatchedSite ==
    scanner # "none"
    => \A m \in TaggedTemplatesOf(scanned), n \in TaggedTemplatesOf(scanned) :
            (ReportedFor(m) # {} /\ NestedIn(n, m)) => ReportedFor(n) = {}

---------------------------------------------------------------------------
(* The declaration codegen.  Two generations of generateDeclarationContent *)
(* are in the repository: codegen.ts ("codegen": an entry carries          *)
(* constructorInputs and abi) and the plugin's codegen before it           *)
(* ("plugin": an entry carries its callable functions).  An entry of the   *)
(* model has the fields of both; each generation reads its own.            *)

ContractTypeEntry(contractName, constructorInputs, abi, functions) ==
    [contractName |-> contractName, constructorInputs |-> constructorInputs,
     abi |-> abi, functions |-> functions]

\* JSON.stringify of the fields that make an entry's signature.  The values
\* come from JSON.parse of solc's output, on which JSON.stringify is
\* one-to-one; the text is represented by the value it encodes.
Fingerprint(version, e) ==
    IF version = "codegen"
    THEN [constructorInputs |-> e.constructorInputs, abi |-> e.abi]
    ELSE [functions |-> e.functions]

\* solidityTypeToTs, on the types of the model.
solidityTypeToTs(p) ==
    CASE p.type = "address" -> "0xstring"
      [] p.type = "bool" -> "boolean"
      [] p.type = "uint256" -> "bigint"
      [] OTHER -> "unknown"

\* The first loop: group the entries by contractName, in insertion order.
\* A group is the indices of the entries with one name; byName lists the
\* first index of each group in the order the Map iterates.
GroupOf(es, name) == { i \in DOMAIN es : es[i].contractName = name }
IsLastOfGroup(es, i) ==
    \A j \in (i + 1)..Len(es) : es[j].contractName # es[i].contractName
IsFirstOfGroup(es, i) ==
    \A j \in 1..(i - 1) : es[j].contractName # es[i].contractName

GroupHasSeveral(version, es, name) == Cardinality(GroupOf(es, name)) > 1
\* group.length > 1 and more than one fingerprint in the group.
SignaturesDiffer(version, es, name) ==
    /\ Cardinality(GroupOf(es, name)) > 1
    /\ Cardinality({ Fingerprint(version, es[i]) : i \in GroupOf(es, name) }) > 1

RECURSIVE byNameFrom(_, _)
byNameFrom(es, i) ==
    IF i > Len(es) THEN <<>>
    ELSE (IF IsFirstOfGroup(es, i) THEN <<i>> ELSE <<>>) \o byNameFrom(es, i + 1)

\* A line of the generated text.
Line(kind, name, body) == [line |-> kind, name |-> name, body |-> body]

\* name: solidityTypeToTs(p), of each constructor input.
BytecodeParams(inputs) ==
    [i \in DOMAIN inputs |->
        <<IF inputs[i].name # "" THEN <<inputs[i].name>> ELSE <<"arg", i - 1>>, ":",
          solidityTypeToTs(inputs[i])>>]

\* jsonToConstType of an array of SolcAbiParam.
paramsToConstType(params) ==
    IF Len(params) = 0 THEN <<"readonly []">>
    ELSE <<"readonly [">>
         \o [i \in DOMAIN params |->
                <<"{", "readonly name:", params[i].name, ";",
                  "readonly type:", params[i].type, "}">>]
         \o <<"]">>

\* jsonToConstType, on an ABI of the model: an array of items, each an
\* object of strings and arrays of SolcAbiParam.
jsonToConstType(abi) ==
    IF Len(abi) = 0 THEN <<"readonly []">>
    ELSE <<"readonly [">>
         \o [i \in DOMAIN abi |->
                <<"{", "readonly type:", abi[i].type, ";",
                  "readonly name:", abi[i].name, ";",
                  "readonly stateMutability:", abi[i].stateMutability, ";",
                  "readonly inputs:", paramsToConstType(abi[i].inputs), ";",
                  "readonly outputs:", paramsToConstType(abi[i].outputs), "}">>]
         \o <<"]">>

formatReturnType(outputs) ==
    IF Len(outputs) = 0 THEN <<"void">>
    ELSE IF Len(outputs) = 1 THEN <<solidityTypeToTs(outputs[1])>>
    ELSE <<"[">> \o [j \in DOMAIN outputs |-> solidityTypeToTs(outputs[j])] \o <<"]">>

\* The call() overloads of the functions of an entry.
CallOverloads(e) ==
    [i \in DOMAIN e.functions |->
        Line("call", e.contractName,
             <<e.functions[i].name,
               [j \in DOMAIN e.functions[i].inputs |->
                    solidityTypeToTs(e.functions[i].inputs[j])],
               formatReturnType(e.functions[i].outputs)>>)]

RECURSIVE FlattenLines(_, _)
FlattenLines(groups, i) ==
    IF i > Len(groups) THEN <<>> ELSE groups[i] \o FlattenLines(groups, i + 1)

generateDeclarationContent(version, es) ==
    IF Len(es) = 0 THEN [content |-> <<>>, duplicates |-> <<>>]
    ELSE
    LET byName == byNameFrom(es, 1)
        unique == [k \in DOMAIN byName |-> es[byName[k]]]
        differs(k) == SignaturesDiffer(version, es, unique[k].contractName)
        flagged == SelectSeq([k \in DOMAIN unique |-> k], differs)
        duplicates == [d \in DOMAIN flagged |-> unique[flagged[d]].contractName]
        abiMapEntries ==
            [k \in DOMAIN unique |->
                Line("abi", unique[k].contractName, jsonToConstType(unique[k].abi))]
        bytecodes ==
            [k \in DOMAIN unique |->
                Line("bytecode", unique[k].contractName,
                     BytecodeParams(unique[k].constructorInputs))]
        overloads ==
            FlattenLines([k \in DOMAIN unique |-> CallOverloads(unique[k])], 1)
    IN  IF version = "codegen"
        THEN [content |->
                <<Line("module", <<>>, <<>>), Line("InlineContractAbiMap", <<>>, <<>>)>>
                \o abiMapEntries
                \o <<Line("InlineContract", <<>>, <<>>)>>
                \o bytecodes,
              duplicates |-> duplicates]
        ELSE IF Len(overloads) = 0
        THEN [content |-> <<>>, duplicates |-> duplicates]
        ELSE [content |->
                <<Line("module", <<>>, <<>>), Line("SolContract", <<>>, <<>>)>>
                \o overloads,
              duplicates |-> duplicates]

---------------------------------------------------------------------------
(* SpecCodegen: generateDeclarationContent on sequences of entries.        *)

\* Entries given to the generator.
MaxEntries == 3

Generators == {"codegen", "plugin"}

\* A function of a contract, as the plugin's entries list it.
FunctionOverload(name, inputs, outputs) ==
    [name |-> name, inputs |-> inputs, outputs |-> outputs]

\* Two contracts' names, each with a signature without and with a
\* constructor input (and with one and another callable function).
CodegenEntries ==
    { ContractTypeEntry(<<"L">>, <<>>,
                        <<AbiItem("function", "f", "pure", <<>>, <<>>)>>,
                        <<FunctionOverload("f", <<>>, <<>>)>>),
      ContractTypeEntry(<<"L">>, <<Param("", "uint256")>>,
                        <<AbiItem("constructor", "", "nonpayable",
                                  <<Param("", "uint256")>>, <<>>),
                          AbiItem("function", "h", "view", <<Param("a", "address")>>,
                                  <<Param("", "uint256")>>)>>,
                        <<FunctionOverload("h", <<Param("a", "address")>>,
                                           <<Param("", "uint256")>>)>>),
      ContractTypeEntry(<<"G">>, <<>>,
                        <<AbiItem("function", "set", "nonpayable",
                                  <<Param("a", "address")>>, <<>>)>>,
                        <<>>),
      ContractTypeEntry(<<"G">>, <<Param("x", "bool")>>,
                        <<AbiItem("constructor", "", "nonpayable",
                                  <<Param("x", "bool")>>, <<>>),
                          AbiItem("function", "greet", "view", <<>>,
                                  <<Param("", "bool")>>)>>,
                        <<FunctionOverload("greet", <<>>, <<Param("", "bool")>>)>>) }

InitCodegen ==
    /\ typeEntries \in SeqsUpTo(CodegenEntries, MaxEntries)
    /\ generated = NotGenerated
    /\ ScanIdle
    /\ TypesIdle
    /\ FoldIdle
    /\ MapIdle
    /\ CacheIdle
    /\ BuildIdle

Generate ==
    /\ generated = NotGenerated
    /\ \E version \in Generators :
         \E got \in { generateDeclarationContent(version, typeEntries) } :
            generated' = [by |-> version, content |-> got.content,
                          duplicates |-> got.duplicates]
    /\ UNCHANGED typeEntries
    /\ UNCHANGED <<scanVars, typesVars>>
    /\ UNCHANGED <<foldVars, mapVars, cacheVars, buildVars>>

NextCodegen == Generate

SpecCodegen == InitCodegen /\ [][NextCodegen]_vars

\* The signature of an entry as the generator `by` declares it: the
\* constructor inputs and the ABI, or the callable functions.
SignatureOf(by, e) ==
    IF by = "codegen" THEN <<e.constructorInputs, e.abi>> ELSE <<e.functions>>

\* Entry i is not the first of its name.
OccursEarlier(es, i) ==
    \E j \in 1..(i - 1) : es[j].contractName = es[i].contractName

NamesOf(es) == { es[i].contractName : i \in DOMAIN es }

DivergingNames(by, es) ==
    { es[i].contractName : i \in { i \in DOMAIN es :
        \E j \in DOMAIN es : /\ es[j].contractName = es[i].contractName
                              /\ SignatureOf(by, es[j]) # SignatureOf(by, es[i]) } }

\* C15: a name is in duplicates exactly when two entries with that name have
\* different signatures, and it is there once; entries sharing name and
\* signature are not reported.
C15_DuplicatesAreDivergingNames ==
    generated.by # "none"
    => /\ { generated.duplicates[d] : d \in DOMAIN generated.duplicates }
            = DivergingNames(generated.by, typeEntries)
       /\ \A c, d \in DOMAIN generated.duplicates :
            generated.duplicates[c] = generated.duplicates[d] => c = d

\* Three entries of one name with two signatures among them: one pair
\* agrees, two pairs differ, and the name is reported once.
C15_Witness ==
    /\ generated.by # "none"
    /\ Len(typeEntries) = 3
    /\ Cardinality(NamesOf(typeEntries)) = 1
    /\ Cardinality({ SignatureOf(generated.by, typeEntries[i]) : i \in DOMAIN typeEntries }) = 2
    /\ Len(generated.duplicates) = 1

\* The input with entry e appended, and with entry i replaced by e.
Appended(es, e) == Append(es, e)
Altered(es, i, e) == [es EXCEPT ![i] = e]

\* C16: the content is that of the first entry of each name: appending an
\* entry whose name already occurred, or altering an entry that is not the
\* first of its name (keeping its name), leaves the content as it was.
C16_FirstEntryIsCanonical ==
    generated.by # "none"
    => \A e \in CodegenEntries :
        /\ e.contractName \in NamesOf(typeEntries)
           => generateDeclarationContent(generated.by, Appended(typeEntries, e)).content
                = generated.content
        /\ \A i \in DOMAIN typeEntries :
            (/\ OccursEarlier(typeEntries, i)
             /\ e.contractName = typeEntries[i].contractName)
            => generateDeclarationContent(generated.by, Altered(typeEntries, i, e)).content
                 = generated.content

\* A later entry of a name differs in signature from the first one, and the
\* content was generated from the first.
C16_Witness ==
    /\ generated.by # "none"
    /\ generated.content # <<>>
    /\ \E i \in DOMAIN typeEntries :
        /\ OccursEarlier(typeEntries, i)
        /\ \E j \in 1..(i - 1) :
            /\ typeEntries[j].contractName = typeEntries[i].contractName
            /\ SignatureOf(generated.by, typeEntries[j]) # SignatureOf(generated.by, typeEntries[i])

---------------------------------------------------------------------------
(* The generated declaration file, .soltag/types.d.ts.  Three paths keep   *)
(* it: the editor plugin's regenerateTypesFile, the cli script, and the    *)
(* bundler's buildEnd.  The editor plugin generates with the plugin's      *)
(* codegen, the cli and the bundler with codegen.ts.                       *)

File(content) == [exists |-> TRUE, content |-> content]

\* What one pass did: the file it left, what it returned, and how many
\* times it called writeFileSync and unlinkSync.
PassResult(file, returned, writes, unlinks, content) ==
    [file |-> file, returned |-> returned, writes |-> writes,
     unlinks |-> unlinks, content |-> content]

regenerateAlways(file, es) ==
    CHOOSE r \in { PassResult(File(content), "true", 1, 0, content) :
                     content \in { generateDeclarationContent("plugin", es).content } } : TRUE

regenerateTypesFile(file, es) ==
    CHOOSE r \in {
        IF content = <<>>
        THEN IF file.exists
             THEN PassResult(Absent, "true", 0, 1, content)
             ELSE PassResult(file, "false", 0, 0, content)
        ELSE IF file.exists /\ file.content = content
             THEN PassResult(file, "false", 0, 0, content)
             ELSE PassResult(File(content), "true", 1, 0, content) :
        content \in { generateDeclarationContent("plugin", es).content } } : TRUE

\* The cli script, from generateDeclarationContent to its end.
cliTypesFile(file, es) ==
    CHOOSE r \in {
        IF content = <<>>
        THEN IF file.exists
             THEN PassResult(Absent, "undefined", 0, 1, content)
             ELSE PassResult(file, "undefined", 0, 0, content)
        ELSE IF file.exists /\ file.content = content
             THEN PassResult(file, "undefined", 0, 0, content)
             ELSE PassResult(File(content), "undefined", 1, 0, content) :
        content \in { generateDeclarationContent("codegen", es).content } } : TRUE

\* buildEnd, with rootDir set; es are the values of namedEntries.
buildEnd(file, es) ==
    IF Len(es) = 0 THEN PassResult(file, "undefined", 0, 0, <<>>)
    ELSE CHOOSE r \in {
        IF content = <<>>
        THEN PassResult(file, "undefined", 0, 0, content)
        ELSE IF file.exists /\ file.content = content
             THEN PassResult(file, "undefined", 0, 0, content)
             ELSE PassResult(File(content), "undefined", 1, 0, content) :
        content \in { generateDeclarationContent("codegen", es).content } } : TRUE

---------------------------------------------------------------------------
(* SpecTypes: a project whose named sites change between passes, and the   *)
(* three paths run over it in any order.                                   *)

\* Declaration entries of a project.
MaxProjectEntries == 2

Projects == SeqsUpTo(CodegenEntries, MaxProjectEntries)

InitTypes ==
    /\ typesFile = Absent
    /\ project \in Projects
    /\ pass = NoPass
    /\ ScanIdle
    /\ CodegenIdle
    /\ FoldIdle
    /\ MapIdle
    /\ CacheIdle
    /\ BuildIdle

\* The pass of `path` ran and did `got`.
Passed(path, got) ==
    /\ typesFile' = got.file
    /\ pass' = [path |-> path, returned |-> got.returned, writes |-> got.writes,
                unlinks |-> got.unlinks, content |-> got.content,
                before |-> typesFile, repeat |-> (pass.path = path)]
    /\ UNCHANGED project
    /\ UNCHANGED <<scanVars, codegenVars>>
    /\ UNCHANGED <<foldVars, mapVars, cacheVars, buildVars>>

\* The sources of the project are edited.
EditProject ==
    /\ \E es \in Projects \ {project} : project' = es
    /\ pass' = NoPass
    /\ UNCHANGED typesFile
    /\ UNCHANGED <<scanVars, codegenVars>>
    /\ UNCHANGED <<foldVars, mapVars, cacheVars, buildVars>>

RegenerateTypesFile == \E got \in { regenerateTypesFile(typesFile, project) } : Passed("editor", got)

CliRun == \E got \in { cliTypesFile(typesFile, project) } : Passed("cli", got)

BuildEnd == \E got \in { buildEnd(typesFile, project) } : Passed("bundler", got)

NextTypes ==
    \/ EditProject
    \/ RegenerateTypesFile
    \/ CliRun
    \/ BuildEnd

SpecTypes == InitTypes /\ [][NextTypes]_vars

\* C17: a pass writes the file only when the generated content differs from
\* the content on disk; a pass that repeats the previous one over the same
\* project neither writes nor removes, leaves the file as it was, and (the
\* editor's regenerateTypesFile) returns false.
C17_WriteOnlyWhenContentDiffers ==
    pass.path # "none"
    => /\ pass.writes > 0
          => ~(pass.before.exists /\ pass.before.content = pass.content)
       /\ pass.repeat
          => /\ pass.writes = 0
             /\ pass.unlinks = 0
             /\ typesFile = pass.before
             /\ pass.path = "editor" => pass.returned = "false"

\* regenerateTypesFile ran twice over a project with named entries: the file
\* is there and the second run returned false.
C17_Witness ==
    /\ pass.path = "editor"
    /\ pass.repeat
    /\ typesFile.exists
    /\ typesFile.content = pass.content
    /\ pass.returned = "false"

\* C18: after a pass whose generated content is empty, no declaration file
\* exists on disk, whichever path ran the pass.
C18_EmptyContentRemovesFile ==
    (pass.path # "none" /\ pass.content = <<>>) => ~typesFile.exists

---------------------------------------------------------------------------
(* The first bundler plugin and the editor's project scan.  That plugin's  *)
(* transform takes the plain form sol`...` and the factory form            *)
(* sol("Name")`...` as sites, compiles with runtime compile and replaces a *)
(* site by __SolContract.fromArtifacts(...); the editor plugin collects    *)
(* the sites of the project and compiles the entries of the types file.    *)

\* item.type === "function", view or pure, with a name.
IsCallable(item) ==
    /\ item.type = "function"
    /\ item.stateMutability \in {"view", "pure"}
    /\ item.name # ""

extractCallableFunctions(abi) ==
    LET callable == SelectSeq(abi, IsCallable)
    IN  [i \in DOMAIN callable |->
            [name |-> callable[i].name, inputs |-> callable[i].inputs,
             outputs |-> callable[i].outputs]]

\* Object.values(artifacts): the contracts of a result in the order of
\* their names in the compiler's output.
ContractsInOrder(result) ==
    (IF HasContract(result, <<"G">>) THEN <<ContractOf(result, <<"G">>)>> ELSE <<>>)
    \o (IF HasContract(result, <<"L">>) THEN <<ContractOf(result, <<"L">>)>> ELSE <<>>)

\* Object.values(artifacts).flatMap(c => extractCallableFunctions(c.abi))
CallableFunctionsOf(result) ==
    LET cs == ContractsInOrder(result)
    IN  FlattenLines([i \in DOMAIN cs |-> extractCallableFunctions(cs[i].abi)], 1)

\* An entry is collected for every rewritten site, named or not.
collectsAlways(contractName) == TRUE
\* contractName != null && namedEntries != null
collectsNamed(contractName) == contractName.defined

\* code.includes of "sol`", "sol `" or "sol(".
fastPathPlain(statements) ==
    \E i \in DOMAIN statements :
        \E n \in Descendants(statements[i]) :
            \/ /\ n.kind = "TaggedTemplateExpression"
               /\ n.tag.kind = "Identifier"
               /\ n.tag.name = "sol"
            \/ /\ n.kind = "CallExpression"
               /\ n.expression.kind = "Identifier"
               /\ n.expression.name = "sol"

RECURSIVE visitPlain(_)
RECURSIVE visitEachPlain(_, _)
\* The sites the first plugin's visit reaches from n, in order.
visitPlain(n) ==
    IF n.kind = "TaggedTemplateExpression" /\ isSolTagAnalysis(n.tag).match
    THEN <<n>>
    ELSE visitEachPlain(Children(n), 1)

visitEachPlain(nodes, i) ==
    IF i > Len(nodes) THEN <<>>
    ELSE visitPlain(nodes[i]) \o visitEachPlain(nodes, i + 1)

\* __SolContract.fromArtifacts<"Name">(artifacts), the generic only for a
\* named site.
ReplacementPlain(contractName, result) ==
    [kind |-> "replacement", callee |-> "__SolContract.fromArtifacts",
     name |-> contractName, artifacts |-> result.contracts]

\* The body of the first plugin's visit for the matched node n.
visitSitePlain(n, statements, acc) ==
    LET contractName == isSolTagAnalysis(n.tag).contractName
        soliditySource == extractTemplateSource(n.template, statements, MaxStack)
        got == compile(acc.store, soliditySource.text, NoOptions)
        obs == [source |-> soliditySource, out |-> got.out,
                solcCalls |-> Len(got.store.solcLog) - Len(acc.store.solcLog)]
        artifacts == got.store.heap[got.out.ref]
        entry == [contractName |-> contractName.text,
                  constructorInputs |-> <<>>,
                  abi |-> <<>>,
                  functions |-> CallableFunctionsOf(artifacts)]
    IN  IF soliditySource.tag = "RangeError"
        THEN [acc EXCEPT !.thrown = Throw("RangeError", <<>>)]
        ELSE IF soliditySource.tag = "undefined"
        THEN [acc EXCEPT !.text = Append(@, Original(n)),
                         !.seen = Append(@, [source |-> soliditySource,
                                             out |-> [kind |-> "none", ref |-> 0,
                                                      errors |-> <<>>],
                                             solcCalls |-> 0])]
        ELSE IF got.out.kind # "return"
        THEN [acc EXCEPT !.store = got.store, !.thrown = got.out,
                         !.seen = Append(@, obs)]
        ELSE [acc EXCEPT
                !.store = got.store,
                !.namedEntries =
                    IF collectsNamed(contractName)
                    THEN MapSet(@, contractName.text \o <<"\\0">> \o soliditySource.text,
                                entry)
                    ELSE @,
                !.text = Append(@, ReplacementPlain(contractName, artifacts)),
                !.hasReplacements = TRUE,
                !.seen = Append(@, obs)]

RECURSIVE transformSitesPlain(_, _, _, _)
transformSitesPlain(sites, i, statements, acc) ==
    IF i > Len(sites) \/ acc.thrown.kind # "none" THEN acc
    ELSE CHOOSE end \in
            { transformSitesPlain(sites, i + 1, statements, next) :
                next \in { visitSitePlain(sites[i], statements, acc) } } : TRUE

\* transformSolTemplates of the first plugin.
transformSolTemplatesPlain(statements, st, entries) ==
    LET start == [store |-> st, namedEntries |-> entries, options |-> NoOptions,
                  text |-> <<>>, seen |-> <<>>, hasReplacements |-> FALSE,
                  thrown |-> [kind |-> "none", ref |-> 0, errors |-> <<>>]]
        sites == visitEachPlain(statements, 1)
        finish(end) ==
            [store |-> end.store, namedEntries |-> end.namedEntries,
             text |-> end.text, seen |-> end.seen, thrown |-> end.thrown,
             sites |-> sites,
             result |-> IF end.thrown.kind # "none" THEN "throw"
                        ELSE IF ~end.hasReplacements THEN "undefined"
                        ELSE "code",
             imports |-> prependImport(end)]
    IN  IF ~fastPathPlain(statements)
        THEN [store |-> st, namedEntries |-> entries, text |-> <<>>, seen |-> <<>>,
              thrown |-> start.thrown, sites |-> <<>>, result |-> "undefined",
              imports |-> 0]
        ELSE CHOOSE r \in
                { finish(end) :
                    end \in { transformSitesPlain(sites, 1, statements, start) } } :
                TRUE

\* collectSolEntries over the files of the program: the literals whose
\* source is known.
HasSource(lit) == lit.source.tag = "string"

collectSolEntries(statements) ==
    LET literals == SelectSeq(findSolTemplateLiterals("analysis", statements), HasSource)
    IN  [i \in DOMAIN literals |->
            [contractName |-> literals[i].contractName,
             source |-> literals[i].source.text]]

IsNamedEntry(raw) == raw.contractName.defined

RECURSIVE compileEntriesFrom(_, _, _)
\* The loop of compileEntries over the named raw entries i.. ; acc is the
\* store and the entries pushed so far.
compileEntriesFrom(named, i, acc) ==
    IF i > Len(named) THEN acc
    ELSE LET name == named[i].contractName.text
             got == compileCached(acc.store, named[i].source, NoOptions)
             output == got.store.heap[got.out.ref].output
             functions == extractCallableFunctions(AbiOf(name))
         IN  CHOOSE end \in
                { compileEntriesFrom(named, i + 1, next) :
                    next \in {
                        IF name \in output.contracts
                        THEN [store |-> got.store,
                              entries |-> Append(acc.entries,
                                  [contractName |-> name, constructorInputs |-> <<>>,
                                   abi |-> <<>>, functions |-> functions])]
                        ELSE [store |-> got.store, entries |-> acc.entries] } } : TRUE

compileEntries(st, rawEntries) ==
    compileEntriesFrom(SelectSeq(rawEntries, IsNamedEntry), 1,
                       [store |-> st, entries |-> <<>>])

---------------------------------------------------------------------------
(* SpecCollect: transforms of the first plugin and scans of the editor     *)
(* plugin, in any order, over files with plain and named sites.            *)

\* Transforms and scans in a behaviour.
MaxCollects == 2

Bare(text) == Const("c", TaggedTemplateExpression(Identifier("sol"), text))
Named(name, text) == Const("c", TaggedTemplateExpression(SolTag(name), text))
Unresolvable(h) == TemplateExpression(h, <<TemplateSpan(CallExpression, <<"w">>)>>)

CollectFiles ==
    { <<>>,
      \* css`L`
      << Const("h", TaggedTemplateExpression(Identifier("css"),
                       NoSubstitutionTemplateLiteral(<<"L">>))) >>,
      \* sol`L`
      << Bare(NoSubstitutionTemplateLiteral(<<"L">>)) >>,
      \* sol("L")`L`
      << Named(<<"L">>, NoSubstitutionTemplateLiteral(<<"L">>)) >>,
      \* sol("G")`G`
      << Named(<<"G">>, NoSubstitutionTemplateLiteral(<<"G">>)) >>,
      \* sol`L${g()}w`
      << Bare(Unresolvable(<<"L">>)) >>,
      \* sol`Lx`: does not compile
      << Bare(NoSubstitutionTemplateLiteral(<<"L", "x">>)) >>,
      \* sol`G`; sol("L")`L`
      << Bare(NoSubstitutionTemplateLiteral(<<"G">>)),
         Named(<<"L">>, NoSubstitutionTemplateLiteral(<<"L">>)) >>,
      \* sol("L")`L`; sol`L`
      << Named(<<"L">>, NoSubstitutionTemplateLiteral(<<"L">>)),
         Bare(NoSubstitutionTemplateLiteral(<<"L">>)) >>,
      \* sol`L`; sol`G`
      << Bare(NoSubstitutionTemplateLiteral(<<"L">>)),
         Bare(NoSubstitutionTemplateLiteral(<<"G">>)) >>,
      \* sol("L")`L`; sol("G")`G`
      << Named(<<"L">>, NoSubstitutionTemplateLiteral(<<"L">>)),
         Named(<<"G">>, NoSubstitutionTemplateLiteral(<<"G">>)) >>,
      \* sol("L")`L`; sol`Lx`
      << Named(<<"L">>, NoSubstitutionTemplateLiteral(<<"L">>)),
         Bare(NoSubstitutionTemplateLiteral(<<"L", "x">>)) >>,
      \* sol`L${g()}w`; sol("G")`G`
      << Bare(Unresolvable(<<"L">>)),
         Named(<<"G">>, NoSubstitutionTemplateLiteral(<<"G">>)) >> }

InitCollect ==
    /\ BuildIdle
    /\ StoreEmpty
    /\ callers = [c \in Callers |-> IdleCaller]
    /\ clock = 0
    /\ FoldIdle
    /\ MapIdle
    /\ ToolsIdle

\* transform of the first plugin on a file.
TransformPlain ==
    /\ clock < MaxCollects
    /\ \E file \in CollectFiles :
         \E got \in { transformSolTemplatesPlain(file, Store, namedEntries) } :
            /\ compilationCache' = got.store.compilationCache
            /\ cache' = got.store.cache
            /\ heap' = got.store.heap
            /\ solcLog' = got.store.solcLog
            /\ namedEntries' = got.namedEntries
            /\ transformed' = [file |-> file, version |-> "plain",
                               result |-> got.result, text |-> got.text,
                               imports |-> got.imports, sites |-> got.sites,
                               seen |-> got.seen, entriesBefore |-> namedEntries]
    /\ clock' = clock + 1
    /\ UNCHANGED <<phase, callers, foldVars, mapVars, toolVars>>

\* The editor plugin collects and compiles the entries of a project of one
\* file and generates the declaration text.
ProjectScan ==
    /\ clock < MaxCollects
    /\ \E file \in CollectFiles :
         \E got \in { compileEntries(Store, collectSolEntries(file)) } :
            /\ compilationCache' = got.store.compilationCache
            /\ cache' = got.store.cache
            /\ heap' = got.store.heap
            /\ solcLog' = got.store.solcLog
            /\ scanned' = file
            /\ scanner' = "analysis"
            /\ solLiterals' = findSolTemplateLiterals("analysis", file)
            /\ typeEntries' = got.entries
            /\ \E text \in { generateDeclarationContent("plugin", got.entries) } :
                 generated' = [by |-> "plugin", content |-> text.content,
                               duplicates |-> text.duplicates]
    /\ clock' = clock + 1
    /\ UNCHANGED <<namedEntries, phase, transformed, callers>>
    /\ UNCHANGED <<foldVars, mapVars, typesVars>>

NextCollect ==
    \/ TransformPlain
    \/ ProjectScan

SpecCollect == InitCollect /\ [][NextCollect]_vars

\* The declaration text of the values of a namedEntries Map.
MapValues(m) == [i \in DOMAIN m |-> m[i].value]
DeclarationTextOf(m) == generateDeclarationContent("plugin", MapValues(m)).content

\* The statements of a file that hold no unnamed site.
HoldsNoBareSite(statement) ==
    \A n \in Descendants(statement) :
        n.kind = "TaggedTemplateExpression" => ~BareMarker(n.tag)
WithoutBareSites(file) == SelectSeq(file, HoldsNoBareSite)

---------------------------------------------------------------------------
(* Properties of the output of the build transform.                        *)

\* The sites of the last transform that were replaced.
Rewritten == { k \in DOMAIN transformed.text : transformed.text[k].kind = "replacement" }

\* C14: the output of a transform that rewrote at least one site holds the
\* import exactly once, however many sites were rewritten; a transform that
\* rewrote no site returns no change and no import.
C14_OneImportPerFile ==
    (transformed.version \in {"bundler", "loader"} /\ transformed.result # "throw")
    => /\ Rewritten # {} => (transformed.result = "code" /\ transformed.imports = 1)
       /\ Rewritten = {} => (transformed.result = "undefined" /\ transformed.imports = 0)

\* Two sites of one file were rewritten by the transform of part_000.
C14_Witness ==
    /\ transformed.version = "loader"
    /\ transformed.result = "code"
    /\ Cardinality(Rewritten) >= 2
    /\ transformed.imports = 1

\* The sites the last transform visited whose source did not resolve.
UnresolvedSites == { k \in DOMAIN transformed.seen : transformed.seen[k].source.tag = "undefined" }

\* C19: the transform of a file that holds a sol("Name") template with an
\* interpolation that cannot be resolved fails (throws), it does not
\* complete.
C19_UnresolvableIsBuildError ==
    (transformed.version \in {"bundler", "loader"} /\ UnresolvedSites # {})
    => transformed.result = "throw"

---------------------------------------------------------------------------
(* Properties of the position mapper on literal segments.                  *)

\* Literal segment 0 is the head, segment j the literal after span j.
SegmentText(j) ==
    IF j = 0 THEN site.template.head ELSE site.template.templateSpans[j].literal
\* The host offset of the delimiter that opens the segment.
SegmentHostStart(j) == IF j = 0 THEN site.start ELSE LiteralStart(site, j)
\* The foreign offset at which the segment begins: the lengths of the
\* literal segments and of the folded values before it.
SegmentForeignStart(j) ==
    IF j = 0 THEN 0
    ELSE ForeignOffsetOfSpan(site, mapFile, j) + FoldedLen(site, mapFile, j)

InsideLiteral(j) ==
    /\ site.template.kind = "TemplateExpression"
    /\ j \in 0..Len(site.template.templateSpans)
    /\ SegmentForeignStart(j) <= compiledPos
    /\ compiledPos < SegmentForeignStart(j) + Len(SegmentText(j))

\* The host offset of character n (from 0) of the segment: after the
\* opening delimiter and the source text of the characters before it.
HostOffsetOfCharacter(j, n) ==
    SegmentHostStart(j) + 1 + RawLen(SubSeq(SegmentText(j), 1, n))

\* C20: a foreign offset inside a literal segment maps to the segment's
\* host start + 1 + its distance from the segment's foreign start, and that
\* is the host offset of the same character.
C20_LiteralSegmentTracksCharacter ==
    mapped # -1 =>
        \A j \in 0..MaxSpans + 1 :
            InsideLiteral(j) =>
                /\ mapped = SegmentHostStart(j) + 1 + (compiledPos - SegmentForeignStart(j))
                /\ mapped = HostOffsetOfCharacter(j, compiledPos - SegmentForeignStart(j))

---------------------------------------------------------------------------
(* Properties of the position mapper past the last segment.                *)

\* The length of the compiled source of the site.
ForeignLen == Len(SiteSource(site, mapFile).text)

\* C21: a foreign offset at or past the end of the last segment maps to the
\* position of the closing backtick, and no offset maps beyond it.
C21_SaturatesAtClosingDelimiter ==
    mapped # -1
    => /\ compiledPos >= ForeignLen => mapped = TemplateEnd(site) - 1
       /\ mapped <= TemplateEnd(site) - 1

---------------------------------------------------------------------------
(* Properties of projected diagnostics.                                    *)

\* mapOffset of the site of the state.
MapOffset(k, sd) == mapCompiledPosToEditor(site, mapFile, k, sd)

\* start <= end for the offsets s <= e of an error.
StartNotAfterEnd == projected.start <= projected.end

\* For each side the mapper is non-decreasing in the foreign offset.
NonDecreasing ==
    \A sd \in {"start", "end"} :
        MapOffset(projected.from, sd) <= MapOffset(projected.to, sd)

\* The diagnostic starts between the opening and the closing delimiter.
StartsInsideTemplate ==
    /\ site.start <= projected.start
    /\ projected.start <= TemplateEnd(site) - 1

\* The length is Math.max(end - start, 1).
LengthAtLeastOne ==
    /\ projected.length >= 1
    /\ projected.length >= projected.end - projected.start

\* C26: for offsets s <= e of an error, the start maps no later than the
\* end, the mapper is non-decreasing on each side, the diagnostic starts
\* inside its template, and its length is positive.
C26_DiagnosticWellFormed ==
    projected # NotProjected
    => /\ StartNotAfterEnd
       /\ NonDecreasing
       /\ StartsInsideTemplate
       /\ LengthAtLeastOne

\* The characters from..to-1 of the projected error all belong to the
\* literal segment j of a site with interpolations; `to` may be the offset
\* just past the segment's last character.
RangeInsideSegment(j) ==
    /\ site.template.kind = "TemplateExpression"
    /\ j \in 0..Len(site.template.templateSpans)
    /\ SegmentForeignStart(j) <= projected.from
    /\ projected.from < projected.to
    /\ projected.to <= SegmentForeignStart(j) + Len(SegmentText(j))

\* C27: an error whose range lies inside one literal segment is projected
\* to a diagnostic of the same length that starts at the host offset of the
\* range's first character.
C27_RangeInsideSegmentKeepsLength ==
    projected # NotProjected
    => \A j \in 0..MaxProjectSpans + 1 :
          RangeInsideSegment(j)
          => /\ projected.length = projected.to - projected.from
             /\ projected.start
                  = HostOffsetOfCharacter(j, projected.from - SegmentForeignStart(j))

---------------------------------------------------------------------------
(* Properties of the lengths the position mapper accumulates.              *)

RECURSIVE AccumulatedFrom(_, _, _)
\* compiledOffset after the loop over the spans from span i on: each
\* iteration adds resolved?.length ?? 0 and span.literal.text.length.
AccumulatedFrom(s, statements, i) ==
    IF i > Len(s.template.templateSpans) THEN 0
    ELSE LET resolved == resolveStringExpression(
                             s.template.templateSpans[i].expression,
                             statements, MaxStack)
         IN  (IF resolved.tag = "string" THEN Len(resolved.text) ELSE 0)
             + Len(s.template.templateSpans[i].literal)
             + AccumulatedFrom(s, statements, i + 1)

\* compiledOffset when the mapper reaches its last statement.
AccumulatedLen(s, statements) ==
    Len(s.template.head) + AccumulatedFrom(s, statements, 1)

\* The mapper returned from its last statement, template.getEnd() - 1: no
\* other branch returns that offset for a template with interpolations.
PastTheEnd == mapped = TemplateEnd(site) - 1

---------------------------------------------------------------------------
(* The editor's getSemanticDiagnostics.                                    *)

\* A ts.Diagnostic the plugin pushes: its code, its category, the site
\* (index in solLiterals) it is about, and what it spans: the site
\* (literal.pos to literal.end), the site's tag, or a range of the template
\* given by offsets from the template's opening backtick.
Diagnostic(code, category, i, span) ==
    [code |-> code, category |-> category, literal |-> i, span |-> span]
SiteSpan == [kind |-> "site", start |-> 0, length |-> 0]
TagSpan == [kind |-> "tag", start |-> 0, length |-> 0]
RangeSpan(start, length) == [kind |-> "range", start |-> start, length |-> length]

\* The catch block pushes nothing.
NoGenericDiagnostic(i) == <<>>

\* The catch block: "Failed to compile Solidity source".
GenericDiagnostic(i) == <<Diagnostic(90001, "Error", i, SiteSpan)>>

\* compileCached when solc.compile (or getSolc) throws for the sources in
\* `crashing`: a cached output is returned before solc is reached.
compileCachedOrThrow(st, source, crashing) ==
    IF MapHas(st.cache, source \o JSONstringify(NoOptions))
    THEN compileCached(st, source, NoOptions)
    ELSE IF source \in crashing
    THEN [store |-> st, out |-> Throw("Error", <<>>)]
    ELSE compileCached(st, source, NoOptions)

DiagnosticCategory(severity) ==
    IF severity = "error" THEN "Error"
    ELSE IF severity = "warning" THEN "Warning"
    ELSE "Suggestion"

\* The loop over output.errors, each of inline.sol with a sourceLocation.
ErrorDiagnostics(lit, i, statements, errors) ==
    [k \in DOMAIN errors |->
        LET at == projectError([template |-> lit.node.template, start |-> 0],
                               statements, errors[k].start, errors[k].end)
        IN  Diagnostic(90000, DiagnosticCategory(errors[k].severity), i,
                       RangeSpan(at.start, at.length))]

\* The body of the loop over solLiterals for literal i.
diagnoseLiteral(acc, lit, i, statements, crashing, duplicates) ==
    LET warned == IF lit.source.tag = "string" /\ lit.contractName.text \in duplicates
                  THEN <<Diagnostic(90002, "Warning", i, SiteSpan)>>
                  ELSE <<>>
        got == compileCachedOrThrow(acc.store, lit.source.text, crashing)
        output == got.store.heap[got.out.ref].output
        missing == IF lit.contractName.text \in output.contracts THEN <<>>
                   ELSE <<Diagnostic(90003, "Error", i, TagSpan)>>
    IN  IF lit.source.tag # "string"
        THEN [acc EXCEPT !.diagnostics = @ \o warned,
                         !.seen = Append(@, "skipped")]
        ELSE IF got.out.kind # "return"
        THEN [acc EXCEPT !.diagnostics = @ \o warned \o GenericDiagnostic(i),
                         !.seen = Append(@, "caught")]
        ELSE [acc EXCEPT !.store = got.store,
                         !.diagnostics = @ \o warned \o missing
                             \o ErrorDiagnostics(lit, i, statements, output.errors),
                         !.seen = Append(@, "compiled")]

RECURSIVE diagnoseLiterals(_, _, _, _, _, _)
diagnoseLiterals(acc, literals, i, statements, crashing, duplicates) ==
    IF i > Len(literals) THEN acc
    ELSE CHOOSE end \in
            { diagnoseLiterals(next, literals, i + 1, statements, crashing, duplicates) :
                next \in { diagnoseLiteral(acc, literals[i], i, statements,
                                           crashing, duplicates) } } : TRUE

\* The function createGetSemanticDiagnostics returns, called on a file of
\* the program: `prior` are the host's own diagnostics, `duplicates` the
\* names isDuplicateContractName answers true for.  findSolTemplateLiterals
\* runs outside the try block: an exception of the folder leaves the call.
getSemanticDiagnostics(st, statements, prior, crashing, duplicates) ==
    LET literals == findSolTemplateLiterals("ast-utils", statements)
        start == [store |-> st, diagnostics |-> <<>>, seen |-> <<>>]
    IN  IF \E i \in DOMAIN literals : literals[i].source.tag = "RangeError"
        THEN [store |-> st, result |-> "throw", diagnostics |-> <<>>,
              literals |-> <<>>, seen |-> <<>>]
        ELSE CHOOSE r \in
                { [store |-> end.store, result |-> "return",
                   diagnostics |-> prior \o end.diagnostics,
                   literals |-> literals, seen |-> end.seen] :
                    end \in { diagnoseLiterals(start, literals, 1, statements,
                                               crashing, duplicates) } } : TRUE

---------------------------------------------------------------------------
(* SpecDiag: the editor asks for the diagnostics of files, with a solc     *)
(* that throws on some sources.                                            *)

\* Calls of getSemanticDiagnostics in a behaviour.
MaxDiagnoses == 2

\* sol("L")`Lw`: compiles with a warning
SiteWarn == Const("w", TaggedTemplateExpression(SolTag(<<"L">>),
                        NoSubstitutionTemplateLiteral(<<"L", "w">>)))

DiagFiles ==
    { f \in { <<>>,
              <<SiteL>>,
              <<SiteBad>>,
              <<SiteWarn>>,
              <<SiteUnresolvable>>,
              <<SiteL, SiteBad>>,
              <<SiteBad, SiteL>>,
              <<SiteBad, SiteWarn>>,
              <<SiteUnresolvable, SiteL>>,
              <<ConstA, SiteGA>>,
              <<CyclicA, SiteGA>>,
              <<SiteL, SiteL>>,
              <<SiteBad, SiteL, SiteWarn>>,
              <<ConstA, SiteGA, SiteBad>> } :
        Len(f) <= MaxBuildStatements }

\* The host's own diagnostics of a file.
PriorDiagnostics ==
    { <<>>, <<Diagnostic(2322, "Error", 0, RangeSpan(0, 1))>> }

\* The sources of the file's sites that resolve.
SourcesOf(statements) ==
    { extractTemplateSource(n.template, statements, MaxStack).text :
        n \in { n \in TaggedTemplatesOf(statements) :
                  extractTemplateSource(n.template, statements, MaxStack).tag = "string" } }

InitDiag ==
    /\ MapIdle
    /\ FoldIdle
    /\ CacheIdle
    /\ BuildIdle
    /\ ToolsIdle

GetSemanticDiagnostics ==
    /\ clock < MaxDiagnoses
    /\ \E file \in DiagFiles, prior \in PriorDiagnostics, duplicates \in { {}, { <<"L">> } } :
         \E crashing \in SUBSET SourcesOf(file) :
           \E got \in { getSemanticDiagnostics(Store, file, prior, crashing, duplicates) } :
             /\ compilationCache' = got.store.compilationCache
             /\ cache' = got.store.cache
             /\ heap' = got.store.heap
             /\ solcLog' = got.store.solcLog
             /\ clock' = clock + 1
             /\ diagnosed' = [file |-> file, crashing |-> crashing, prior |-> prior,
                              result |-> got.result, diagnostics |-> got.diagnostics,
                              literals |-> got.literals, seen |-> got.seen]
    /\ UNCHANGED <<site, mapFile, compiledPos, side, mapped, projected,
                   plugin, external>>
    /\ UNCHANGED <<callers, foldVars, buildVars, toolVars>>

NextDiag == GetSemanticDiagnostics

SpecDiag == InitDiag /\ [][NextDiag]_vars

\* The diagnostics the call pushed for literal i, in order.
DiagnosticsOf(i) ==
    SelectSeq(SubSeq(diagnosed.diagnostics, Len(diagnosed.prior) + 1,
                     Len(diagnosed.diagnostics)),
              LAMBDA d : d.literal = i)

\* C24: when the compiler throws on a site, the call returns; the site has
\* exactly one diagnostic of code 90001, spanning the site, and none of the
\* compiler's; the host's own diagnostics come first in the result; and
\* every site of the file was processed: a later site that compiled with
\* errors or warnings has its diagnostics.
C24_CompilerCrashIsOneDiagnostic ==
    (diagnosed.result # "none"
       /\ \E i \in DOMAIN diagnosed.seen : diagnosed.seen[i] = "caught")
    => /\ diagnosed.result = "return"
       /\ SubSeq(diagnosed.diagnostics, 1, Len(diagnosed.prior)) = diagnosed.prior
       /\ Len(diagnosed.seen) = Len(diagnosed.literals)
       /\ \A i \in DOMAIN diagnosed.seen :
            /\ diagnosed.seen[i] = "caught"
               => /\ Len(SelectSeq(DiagnosticsOf(i), LAMBDA d : d.code = 90001)) = 1
                  /\ \A k \in DOMAIN DiagnosticsOf(i) :
                        /\ DiagnosticsOf(i)[k].code \in {90001, 90002}
                        /\ DiagnosticsOf(i)[k].code = 90001
                           => DiagnosticsOf(i)[k].span = SiteSpan
            /\ diagnosed.seen[i] = "compiled"
               => Len(SelectSeq(DiagnosticsOf(i), LAMBDA d : d.code = 90000))
                    = Len(SolcErrorsOf(diagnosed.literals[i].source.text))

\* The compiler threw on the first site of a file; the second site was
\* compiled and has the diagnostic of its error, after the host's own.
C24_Witness ==
    /\ diagnosed.result = "return"
    /\ Len(diagnosed.seen) = 2
    /\ diagnosed.seen[1] = "caught"
    /\ diagnosed.seen[2] = "compiled"
    /\ diagnosed.prior # <<>>
    /\ Len(DiagnosticsOf(1)) = 1
    /\ \E k \in DOMAIN DiagnosticsOf(2) : DiagnosticsOf(2)[k].code = 90000

---------------------------------------------------------------------------
(* The language-service plugin's getExternalFiles.                         *)

REGENERATE_INTERVAL_MS == 1000

\* The test passes from the interval on.
dueFromInterval(now, lastRegenerate) == now - lastRegenerate >= REGENERATE_INTERVAL_MS

\* now - lastRegenerate > REGENERATE_INTERVAL_MS
due(now, lastRegenerate) == now - lastRegenerate > REGENERATE_INTERVAL_MS

\* fs.existsSync(typesFile) ? [typesFile] : []
ExternalFilesOf(file) == IF file.exists THEN <<"types.d.ts">> ELSE <<>>

\* getExternalFiles at Date.now() = now.  `failure` is where the
\* regeneration throws, if it does: "scan" in collectSolEntries (an
\* exception of the scanner), "write" in unlinkSync or writeFileSync; the
\* exception leaves getExternalFiles before lastRegenerate is assigned.
getExternalFiles(pl, file, es, now, failure) ==
    LET call(result, returned, didScan, didTouch) ==
            [result |-> result, returned |-> returned, now |-> now,
             lastBefore |-> pl.lastRegenerate,
             cachedBefore |-> pl.cachedExternalFiles,
             scanned |-> didScan, fsTouched |-> didTouch,
             createdBefore |-> pl.created]
    IN  IF ~pl.created
        THEN [plugin |-> pl, file |-> file,
              call |-> call("return", <<>>, FALSE, FALSE)]
        ELSE IF ~due(now, pl.lastRegenerate)
        THEN [plugin |-> pl, file |-> file,
              call |-> call("return", pl.cachedExternalFiles, FALSE, FALSE)]
        ELSE IF failure = "scan"
        THEN [plugin |-> pl, file |-> file,
              call |-> call("throw", <<>>, TRUE, FALSE)]
        ELSE CHOOSE r \in {
                IF failure = "write" /\ got.writes + got.unlinks > 0
                THEN [plugin |-> pl, file |-> file,
                      call |-> call("throw", <<>>, TRUE, TRUE)]
                ELSE [plugin |-> [pl EXCEPT
                                    !.cachedExternalFiles = ExternalFilesOf(got.file),
                                    !.lastRegenerate = now,
                                    !.regenerations = Append(@, now)],
                      file |-> got.file,
                      call |-> call("return", ExternalFilesOf(got.file), TRUE, TRUE)] :
                got \in { regenerateTypesFile(file, es) } } : TRUE

---------------------------------------------------------------------------
(* SpecExternal: tsserver loads the plugin and asks for its external files *)
(* while the clock advances, or is stepped back.                           *)

\* Calls of getExternalFiles in a behaviour.
MaxExternalCalls == 3

\* Milliseconds between two readings of Date.now().
Elapsed ==
    { -1, 0, 1, REGENERATE_INTERVAL_MS - 1, REGENERATE_INTERVAL_MS,
      REGENERATE_INTERVAL_MS + 1 }

\* Date.now() when the plugin is loaded: well past the interval.
LoadTime == 2 * REGENERATE_INTERVAL_MS

\* The project: no named site, or one.
ExternalProjects == { es \in Projects : Len(es) <= 1 }

InitExternal ==
    /\ site = NoSubstitutionTemplateLiteral(<<>>)
    /\ mapFile = <<>>
    /\ compiledPos = 0
    /\ side = "start"
    /\ mapped = -1
    /\ projected = NotProjected
    /\ diagnosed = NotDiagnosed
    /\ plugin = [PluginIdle EXCEPT !.dateNow = LoadTime]
    /\ external = NoExternalCall
    /\ typesFile = Absent
    /\ project \in ExternalProjects
    /\ pass = NoPass
    /\ ScanIdle
    /\ CodegenIdle
    /\ FoldIdle
    /\ CacheIdle
    /\ BuildIdle

\* create(info)
Create ==
    /\ ~plugin.created
    /\ plugin' = [plugin EXCEPT !.created = TRUE]
    /\ UNCHANGED <<site, mapFile, compiledPos, side, mapped, projected, diagnosed,
                   external>>
    /\ UNCHANGED <<foldVars, cacheVars, buildVars, toolVars>>

\* The sources of the project are edited between two calls.
EditExternalProject ==
    /\ \E es \in ExternalProjects \ {project} : project' = es
    /\ UNCHANGED <<typesFile, pass>>
    /\ UNCHANGED <<scanVars, codegenVars>>
    /\ UNCHANGED <<foldVars, mapVars, cacheVars, buildVars>>

GetExternalFiles ==
    /\ clock < MaxExternalCalls
    /\ \E failure \in {"none", "scan", "write"} :
         \E got \in { getExternalFiles(plugin, typesFile, project,
                                       plugin.dateNow, failure) } :
           \E elapsed \in Elapsed :
             /\ plugin' = [got.plugin EXCEPT !.dateNow = @ + elapsed]
             /\ typesFile' = got.file
             /\ external' = got.call
    /\ clock' = clock + 1
    /\ UNCHANGED <<project, pass>>
    /\ UNCHANGED <<site, mapFile, compiledPos, side, mapped, projected, diagnosed>>
    /\ UNCHANGED <<compilationCache, cache, heap, solcLog, callers>>
    /\ UNCHANGED <<scanVars, codegenVars>>
    /\ UNCHANGED <<foldVars, buildVars>>

NextExternal ==
    \/ Create
    \/ EditExternalProject
    \/ GetExternalFiles

SpecExternal == InitExternal /\ [][NextExternal]_vars

\* The last call was made inside the interval: no more than
\* REGENERATE_INTERVAL_MS after the regeneration before it.
InsideInterval ==
    /\ external.result # "none"
    /\ external.createdBefore
    /\ external.now - external.lastBefore <= REGENERATE_INTERVAL_MS

\* C25: between any two regenerations more than REGENERATE_INTERVAL_MS
\* elapse, and a call inside the interval returns the cached list of
\* external files without scanning the project or touching the file system.
C25_RegeneratesOncePerInterval ==
    /\ \A i \in DOMAIN plugin.regenerations :
         \A j \in DOMAIN plugin.regenerations :
            i < j => plugin.regenerations[j] - plugin.regenerations[i]
                       > REGENERATE_INTERVAL_MS
    /\ InsideInterval
       => /\ external.result = "return"
          /\ external.returned = external.cachedBefore
          /\ ~external.scanned
          /\ ~external.fsTouched
          /\ plugin.lastRegenerate = external.lastBefore

\* Two regenerations were made, and the last call, made exactly
\* REGENERATE_INTERVAL_MS after the second, returned the cached list.
C25_Witness ==
    /\ Len(plugin.regenerations) = 2
    /\ external.now - external.lastBefore = REGENERATE_INTERVAL_MS
    /\ external.returned = <<"types.d.ts">>
    /\ ~external.scanned

===========================================================================
